---------------------------- MODULE Spec2Model ----------------------------
(***************************************************************************)
(* A model of the Bezier curve engine of src/src/bezier.cpp.               *)
(*                                                                         *)
(* Numbers: the code computes in IEEE doubles; the model computes in exact *)
(* rationals <<num, den>> (den > 0, lowest terms), so every equality below *)
(* is an equality of exact values and rounding is left out; the model of   *)
(* intersections() rounds, to a grid.                                      *)
(* A point is <<x, y>>, a matrix is a sequence of rows, the control points *)
(* are an N x 2 matrix: a sequence of points.                              *)
(***************************************************************************)
EXTENDS Integers, Sequences, FiniteSets, TLC

\* ------------------------------------------------------------------------
\* Exact arithmetic standing for the code's double arithmetic
\* ------------------------------------------------------------------------

IAbs(i) == IF i < 0 THEN -i ELSE i

RECURSIVE GCD(_, _)
GCD(a, b) == IF b = 0 THEN a ELSE GCD(b, a % b)

Rat(n, d) ==
  LET s == IF d < 0 THEN -1 ELSE 1
      g == GCD(IAbs(n), IAbs(d))
  IN  <<(s * n) \div g, (s * d) \div g>>

I(n) == <<n, 1>>
Zero == <<0, 1>>
One == <<1, 1>>
Half == <<1, 2>>

\* sums and products cancel common factors first, to keep the integers small
AddBy(a, b, g) == Rat(a[1] * (b[2] \div g) + b[1] * (a[2] \div g), (a[2] \div g) * b[2])
Add(a, b) ==
  IF a = Zero THEN b ELSE IF b = Zero THEN a ELSE AddBy(a, b, GCD(a[2], b[2]))
Neg(a) == <<-a[1], a[2]>>
Sub(a, b) == Add(a, Neg(b))
MulBy(a, b, g, h) ==
  Rat((a[1] \div g) * (b[1] \div h), (a[2] \div h) * (b[2] \div g))
Mul(a, b) ==
  IF a = Zero \/ b = Zero THEN Zero
  ELSE MulBy(a, b, GCD(IAbs(a[1]), b[2]), GCD(IAbs(b[1]), a[2]))
Div(a, b) == Mul(a, Rat(b[2], b[1]))
LtBy(a, b, g) == a[1] * (b[2] \div g) < b[1] * (a[2] \div g)
Lt(a, b) == LtBy(a, b, GCD(a[2], b[2]))
Le(a, b) == ~Lt(b, a)
RAbs(a) == <<IAbs(a[1]), a[2]>>
RMin(a, b) == IF Lt(b, a) THEN b ELSE a
RMax(a, b) == IF Lt(a, b) THEN b ELSE a

RECURSIVE Pow(_, _)
\* std::pow(t, k) for an integer k >= 0; pow(0, 0) is 1
Pow(t, k) == IF k = 0 THEN One ELSE Mul(t, Pow(t, k - 1))

RECURSIVE SumSeq(_)
SumSeq(s) == IF Len(s) = 0 THEN Zero ELSE Add(Head(s), SumSeq(Tail(s)))

\* A vector or matrix built by a function constructor is turned into a
\* tuple at once, so that its entries are computed once and not again at
\* every use.
V(f) == f \o <<>>

Rows(A) == Len(A)
Cols(A) == IF Len(A) = 0 THEN 0 ELSE Len(A[1])

ZeroMat(r, c) == V([i \in 1..r |-> V([j \in 1..c |-> Zero])])
Identity(n) == V([i \in 1..n |-> V([j \in 1..n |-> IF i = j THEN One ELSE Zero])])
Transpose(A) == V([j \in 1..Cols(A) |-> V([i \in 1..Rows(A) |-> A[i][j]])])
MatAdd(A, B) ==
  V([i \in 1..Rows(A) |-> V([j \in 1..Cols(A) |-> Add(A[i][j], B[i][j])])])
MatScale(c, A) ==
  V([i \in 1..Rows(A) |-> V([j \in 1..Cols(A) |-> Mul(c, A[i][j])])])
\* A (r x m) times B (m x c); c is passed because B may have no rows
MatMulC(A, B, c) ==
  V([i \in 1..Rows(A) |->
    V([j \in 1..c |-> SumSeq(V([k \in 1..Rows(B) |-> Mul(A[i][k], B[k][j])]))])])
MatMul(A, B) == MatMulC(A, B, Cols(B))

\* points and vectors (Eigen::Vector2d)
PAdd(p, q) == <<Add(p[1], q[1]), Add(p[2], q[2])>>
PSub(p, q) == <<Sub(p[1], q[1]), Sub(p[2], q[2])>>
PScale(c, p) == <<Mul(c, p[1]), Mul(c, p[2])>>
Origin == <<Zero, Zero>>
Pt(x, y) == <<I(x), I(y)>>
\* squared Euclidean norm: norm() < e is compared as Norm2 < e * e
Norm2(v) == Add(Mul(v[1], v[1]), Mul(v[2], v[2]))

RECURSIVE Fact(_)
Fact(k) == IF k = 0 THEN 1 ELSE k * Fact(k - 1)
factorial(k) == Fact(k)
binomial(n, k) == factorial(n) \div (factorial(k) * factorial(n - k))

\* ------------------------------------------------------------------------
\* Linear algebra the code takes from Eigen
\* ------------------------------------------------------------------------

RECURSIVE MatPow(_, _)
MatPow(A, k) == IF k = 0 THEN Identity(Rows(A)) ELSE MatMul(A, MatPow(A, k - 1))

RECURSIVE ExpSeries(_, _)
ExpSeries(A, k) ==
  IF k = 0 THEN Identity(Rows(A))
  ELSE MatAdd(ExpSeries(A, k - 1), MatScale(Rat(1, Fact(k)), MatPow(A, k)))

\* MatrixXd::exp() of a strictly lower triangular (nilpotent) n x n matrix:
\* the series ends after the power n - 1
MatExp(A) == ExpSeries(A, Rows(A) - 1)

Minor(A, r, c) ==
  V([i \in 1..(Rows(A) - 1) |->
    V([j \in 1..(Rows(A) - 1) |->
      A[IF i < r THEN i ELSE i + 1][IF j < c THEN j ELSE j + 1]])])

RECURSIVE Det(_)
Det(A) ==
  IF Rows(A) = 0 THEN One
  ELSE IF Rows(A) = 1 THEN A[1][1]
  ELSE SumSeq(V([j \in 1..Rows(A) |->
         Mul(I(IF j % 2 = 1 THEN 1 ELSE -1), Mul(A[1][j], Det(Minor(A, 1, j))))]))

\* MatrixXd::inverse() of an invertible square matrix
InverseBy(A, d) ==
  V([i \in 1..Rows(A) |->
    V([j \in 1..Rows(A) |->
      Div(Mul(I(IF (i + j) % 2 = 0 THEN 1 ELSE -1), Det(Minor(A, j, i))), d)])])
Inverse(A) == InverseBy(A, Det(A))

\* ------------------------------------------------------------------------
\* Bounds of the model
\* ------------------------------------------------------------------------

\* the largest number of control points a modelled curve gets
MaxN == 4
\* the coefficient matrices are tabulated for 1..MaxN + 1 control points
TableN == MaxN + 1

\* ------------------------------------------------------------------------
\* Coefficient matrices (bezier.cpp 567-640).  The process-wide maps only
\* memoise these values; in the single-threaded specifications a getter is
\* its value, and the maps themselves are the state of CoeffSpec below.
\* ------------------------------------------------------------------------

\* lines 571-575: the matrix stored under key n
bernsteinFill(n) ==
  LET sub == V([i \in 1..n |-> V([j \in 1..n |-> IF i = j + 1 THEN I(-j) ELSE Zero])])
      scaled(e) ==
        V([k \in 1..n |-> V([j \in 1..n |-> Mul(I(binomial(n - 1, k - 1)), e[k][j])])])
  IN  scaled(MatExp(sub))

BernsteinMemo == V([n \in 1..TableN |-> bernsteinFill(n)])
bernsteinCoeffs(n) == BernsteinMemo[n]
BernsteinInvMemo == V([n \in 1..TableN |-> Inverse(bernsteinCoeffs(n))])

\* lines 593-596 (and 586-588 for z = 0.5)
splittingCoeffsLeft(n, z) ==
  LET coeffs == V([i \in 1..n |-> V([j \in 1..n |-> IF i = j THEN Pow(z, i - 1) ELSE Zero])])
  IN  MatMul(BernsteinInvMemo[n], MatMul(coeffs, bernsteinCoeffs(n)))

\* the right matrix with row k taken from row k of the left one
splittingCoeffsRightUnreflected(n, z) ==
  LET shift(left) ==
        V([i \in 1..n |->
          V([c \in 1..n |-> IF c >= i THEN left[i][c - i + 1] ELSE Zero])])
  IN  shift(splittingCoeffsLeft(n, z))

\* lines 613-617 (and 605-608 for z = 0.5): row k of the right matrix is
\* row n-1-k of the left one, shifted to start on the diagonal
splittingCoeffsRight(n, z) ==
  LET reflect(left) ==
        V([i \in 1..n |->
          V([c \in 1..n |-> IF c >= i THEN left[n + 1 - i][c - i + 1] ELSE Zero])])
  IN  reflect(splittingCoeffsLeft(n, z))

SplitLeftMemo == V([n \in 1..TableN |-> splittingCoeffsLeft(n, Half)])
SplitRightMemo == V([n \in 1..TableN |-> splittingCoeffsRight(n, Half)])
splitLeftHalf(n) == SplitLeftMemo[n]
splitRightHalf(n) == SplitRightMemo[n]

\* lines 624-626: (n+1) x n
elevateFill(n) ==
  V([i \in 1..(n + 1) |->
    V([j \in 1..n |->
      IF i = j THEN Sub(One, Rat(i - 1, n))
      ELSE IF i = j + 1 THEN Rat(j, n)
      ELSE Zero])])

ElevateMemo == V([n \in 1..TableN |-> elevateFill(n)])
elevateOrderCoeffs(n) == ElevateMemo[n]

\* the transposed elevation matrix, without the inverse in front
lowerFillTransposed(n) == Transpose(elevateOrderCoeffs(n - 1))

\* lines 635-637: (n-1) x n
lowerFill(n) ==
  LET pinv(E) == MatMul(Inverse(MatMul(Transpose(E), E)), Transpose(E))
  IN  pinv(elevateOrderCoeffs(n - 1))

\* (no matrix for n = 1: E_0 has no columns)
LowerMemo == V([n \in 1..TableN |-> IF n = 1 THEN <<>> ELSE lowerFill(n)])
lowerOrderCoeffs(n) == LowerMemo[n]

\* ------------------------------------------------------------------------
\* Evaluation (bezier.cpp 201-208)
\* ------------------------------------------------------------------------

\* the powers of t times the control points, the Bernstein matrix left out
valueAtUnweighted(N, cp, t) ==
  IF N = 0 THEN Origin
  ELSE LET power_basis == <<V([k \in 1..N |-> Pow(t, k - 1)])>>
       IN  MatMulC(power_basis, cp, 2)[1]

valueAt(N, cp, t) ==
  IF N = 0 THEN Origin
  ELSE LET power_basis == <<V([k \in 1..N |-> Pow(t, k - 1)])>>
       IN  MatMulC(MatMul(power_basis, bernsteinCoeffs(N)), cp, 2)[1]


\* ------------------------------------------------------------------------
\* Polynomials (coefficient k multiplies t^k, as Eigen::PolynomialSolver
\* takes them)
\* ------------------------------------------------------------------------

RECURSIVE trimZeroes(_)
\* lines 13-19: drop the trailing (highest-degree) zero coefficients
trimZeroes(vec) ==
  IF Len(vec) > 0 /\ vec[Len(vec)] = Zero
  THEN trimZeroes(SubSeq(vec, 1, Len(vec) - 1))
  ELSE vec

Col(M, j) == V([i \in 1..Rows(M) |-> M[i][j]])

\* the largest r in lo..hi with r * r <= n, by bisection (hi * hi fits an int)
RECURSIVE SqrtBetween(_, _, _)
SqrtBetween(n, lo, hi) ==
  IF lo = hi THEN lo
  ELSE LET mid == (lo + hi + 1) \div 2
       IN  IF mid * mid <= n THEN SqrtBetween(n, mid, hi) ELSE SqrtBetween(n, lo, mid - 1)

ISqrt(n) == SqrtBetween(n, 0, IF n < 46340 THEN n ELSE 46340)
IsSquare(n) == ISqrt(n) * ISqrt(n) = n
RatIsSquare(a) == a[1] >= 0 /\ IsSquare(a[1]) /\ IsSquare(a[2])
RatSqrt(a) == <<ISqrt(a[1]), ISqrt(a[2])>>

Disc(p) == Sub(Mul(p[2], p[2]), Mul(I(4), Mul(p[3], p[1])))

\* The polynomials whose real roots are rational, which is what the model
\* can write down: degree 1, and degree 2 with a negative or a square
\* discriminant.  Queries that solve another polynomial are left out.
Solvable(p) ==
  \/ Len(p) <= 2
  \/ Len(p) = 3 /\ (Lt(Disc(p), Zero) \/ RatIsSquare(Disc(p)))

\* PolynomialSolver::compute + realRoots of a trimmed polynomial of degree
\* 1 or 2 (ascending; a double root is two eigenvalues of the companion
\* matrix and comes twice)
realRoots(p) ==
  IF Len(p) = 2 THEN <<Div(Neg(p[1]), p[2])>>
  ELSE IF Lt(Disc(p), Zero) THEN <<>>
  ELSE LET from(r) ==
             LET r1 == Div(Sub(Neg(p[2]), r), Mul(I(2), p[3]))
                 r2 == Div(Add(Neg(p[2]), r), Mul(I(2), p[3]))
             IN  IF Lt(r2, r1) THEN <<r2, r1>> ELSE <<r1, r2>>
       IN  from(RatSqrt(Disc(p)))

InUnit(t) == Le(Zero, t) /\ Le(t, One)
RECURSIVE SelectUnit(_)
\* std::copy_if(..., [](double t) { return t >= 0 && t <= 1; })
SelectUnit(ts) ==
  IF Len(ts) = 0 THEN <<>>
  ELSE (IF InUnit(Head(ts)) THEN <<Head(ts)>> ELSE <<>>) \o SelectUnit(Tail(ts))

\* ------------------------------------------------------------------------
\* Roots, derivative, bounding box (bezier.cpp 259-338) as functions of the
\* control points: what a fresh computation yields
\* ------------------------------------------------------------------------

bezierPolynomial(N, cp) == MatMulC(bernsteinCoeffs(N), cp, 2)

RootsSolvable(N, cp) ==
  N <= 1 \/ (/\ Solvable(trimZeroes(Col(bezierPolynomial(N, cp), 1)))
             /\ Solvable(trimZeroes(Col(bezierPolynomial(N, cp), 2))))

\* lines 289-312
computeRoots(N, cp) ==
  IF N > 1
  THEN LET solve(trimmed) == IF Len(trimmed) > 1 THEN realRoots(trimmed) ELSE <<>>
           both(poly) ==
             SelectUnit(solve(trimZeroes(Col(poly, 1))))
               \o SelectUnit(solve(trimZeroes(Col(poly, 2))))
       IN  both(bezierPolynomial(N, cp))
  ELSE <<>>

\* lines 264-266: the control points of the derivative curve
derivativePoints(N, cp) ==
  IF N = 1 THEN <<Origin>>
  ELSE V([k \in 1..(N - 1) |-> PScale(I(N - 1), PSub(cp[k + 1], cp[k]))])

RECURSIVE MinBy(_, _)
MinBy(ps, c) ==
  IF Len(ps) = 1 THEN ps[1][c] ELSE RMin(ps[1][c], MinBy(Tail(ps), c))
RECURSIVE MaxBy(_, _)
MaxBy(ps, c) ==
  IF Len(ps) = 1 THEN ps[1][c] ELSE RMax(ps[1][c], MaxBy(Tail(ps), c))

\* the box of the two end points alone
computeBoundingBoxOfEnds(N, cp, ext) ==
  <<<<RMin(cp[1][1], cp[N][1]), RMin(cp[1][2], cp[N][2])>>,
    <<RMax(cp[1][1], cp[N][1]), RMax(cp[1][2], cp[N][2])>>>>

\* lines 324-335, given the extrema
computeBoundingBox(N, cp, ext) ==
  LET box(extremes) ==
        <<<<MinBy(extremes, 1), MinBy(extremes, 2)>>,
          <<MaxBy(extremes, 1), MaxBy(extremes, 2)>>>>
  IN  box(V([k \in 1..Len(ext) |-> valueAt(N, cp, ext[k])]) \o <<cp[1], cp[N]>>)


\* ------------------------------------------------------------------------
\* Polyline (bezier.cpp 55-104)
\* ------------------------------------------------------------------------

RECURSIVE MaxOf(_)
MaxOf(xs) == IF Len(xs) = 1 THEN xs[1] ELSE RMax(xs[1], MaxOf(Tail(xs)))

\* lines 79-84: the flatness test of one sub-curve
isFlat(N, cp, flatness) ==
  LET step == PScale(Rat(1, N - 1), PSub(cp[N], cp[1]))
      dev(k, c) ==
        Mul(I(binomial(N - 1, k)),
            Sub(Sub(cp[k + 1][c], cp[1][c]), Mul(I(k), step[c])))
      X == V([k \in 1..(N - 2) |-> Mul(dev(k, 1), dev(k, 1))])
      Y == V([k \in 1..(N - 2) |-> Mul(dev(k, 2), dev(k, 2))])
  IN  Le(Add(MaxOf(X), MaxOf(Y)), Mul(I(16), Mul(flatness, flatness)))

\* lines 77, 87-88: cp refers to subcurves.back(); the flat branch pops that
\* element, which frees its storage, and reads cp.row(N_ - 1) afterwards.
\* The read finds the row as it was when the allocator has left the freed
\* block alone (kept), and the allocator's fill pattern otherwise.
Scribbled == Pt(-99, -99)
rowAfterPop(cp, N, kept) == IF kept THEN cp[N] ELSE Scribbled

RECURSIVE polylineLoop(_, _, _, _, _)
\* lines 75-97: the work-stack loop; the back of subcurves is its top
polylineLoop(N, subcurves, polyline, flatness, kept) ==
  IF Len(subcurves) = 0 THEN polyline
  ELSE LET cp == subcurves[Len(subcurves)]
           rest == SubSeq(subcurves, 1, Len(subcurves) - 1)
       IN  IF isFlat(N, cp, flatness)
           THEN polylineLoop(N, rest, Append(polyline, rowAfterPop(cp, N, kept)),
                             flatness, kept)
           ELSE polylineLoop(N,
                  rest \o <<MatMulC(splitRightHalf(N), cp, 2),
                            MatMulC(splitLeftHalf(N), cp, 2)>>,
                  polyline, flatness, kept)

\* lines 59-98: the polyline a call computes when it does not reuse one
computePolyline(N, cp, flatness, kept) ==
  IF N = 2 THEN <<cp[1], cp[2]>>
  ELSE polylineLoop(N, <<cp>>, <<cp[1]>>, flatness, kept)

\* the polylines a computation can yield, one for each way the freed rows read
polylines(N, cp, flatness) ==
  {computePolyline(N, cp, flatness, kept) : kept \in BOOLEAN}

\* line 57: the stored polyline is taken when the flatness asked for is
\* within 1e-10 of its key.  Lengths are in units of 5e-11, in which the
\* code's 1.e-10 is 2.
PolylineTolerance == 2
polylineReusesAnyKey(slot, key, flatness) == slot # <<>>
polylineReuses(slot, key, flatness) ==
  ~(slot = <<>> \/ Le(I(PolylineTolerance), RAbs(Sub(key, flatness))))

\* ------------------------------------------------------------------------
\* Projection (bezier.cpp 452-496)
\* ------------------------------------------------------------------------

Dot(p, q) == Add(Mul(p[1], q[1]), Mul(p[2], q[2]))

\* line 457
derivatePolynomial(N, cp) ==
  MatMulC(bernsteinCoeffs(N - 1), derivativePoints(N, cp), 2)

\* lines 459-462: entry i of the sum of the products, product k put at
\* offset k
polynomialPart(N, cp) ==
  LET build(curve_polynomial, derivate_polynomial) ==
        V([i \in 1..(Rows(curve_polynomial) + Rows(derivate_polynomial) - 1) |->
          SumSeq(V([k \in 1..Rows(curve_polynomial) |->
            IF i - k + 1 >= 1 /\ i - k + 1 <= Rows(derivate_polynomial)
            THEN Dot(derivate_polynomial[i - k + 1], curve_polynomial[k])
            ELSE Zero]))])
  IN  build(bezierPolynomial(N, cp), derivatePolynomial(N, cp))

\* lines 468-470
projectionPolynomial(part, derivate_polynomial, point) ==
  V([i \in 1..Len(part) |->
    IF i <= Rows(derivate_polynomial)
    THEN Sub(part[i], Dot(derivate_polynomial[i], point))
    ELSE part[i]])

RECURSIVE closest(_, _, _, _, _, _)
\* lines 483-494: scan the candidates for one nearer than the best so far
closest(N, cp, point, candidates, projection, min) ==
  IF Len(candidates) = 0 THEN projection
  ELSE LET c == Head(candidates)
           dist == Norm2(PSub(point, valueAt(N, cp, c)))
       IN  IF ~InUnit(c) THEN closest(N, cp, point, Tail(candidates), projection, min)
           ELSE IF Lt(dist, min)
                THEN closest(N, cp, point, Tail(candidates), c, dist)
                ELSE closest(N, cp, point, Tail(candidates), projection, min)

\* lines 472-495, given the cached pair (distances are compared squared)
projectWith(N, cp, part, derivate_polynomial, point) ==
  LET trimmed == trimZeroes(projectionPolynomial(part, derivate_polynomial, point))
      candidates == IF Len(trimmed) > 1 THEN realRoots(trimmed) ELSE <<>>
      projection ==
        IF Lt(Norm2(PSub(point, valueAt(N, cp, Zero))),
              Norm2(PSub(point, valueAt(N, cp, One))))
        THEN Zero ELSE One
  IN  closest(N, cp, point, candidates, projection,
              Norm2(PSub(point, valueAt(N, cp, projection))))

ProjectionSolvable(N, cp, point) ==
  Solvable(trimZeroes(projectionPolynomial(polynomialPart(N, cp),
                                           derivatePolynomial(N, cp), point)))

\* ------------------------------------------------------------------------
\* Splitting (bezier.cpp 340-343): the control points of the two curves
\* ------------------------------------------------------------------------

splitCurve(N, cp, z) ==
  <<MatMulC(splittingCoeffsLeft(N, z), cp, 2),
    MatMulC(splittingCoeffsRight(N, z), cp, 2)>>


\* ------------------------------------------------------------------------
\* Curvature manipulation (bezier.cpp 155-185) and continuity (516-549):
\* the control points after the call
\* ------------------------------------------------------------------------

\* the interior control points put on the target point itself
manipulatedPointsOnTarget(N, cp, t, point) ==
  IF N = 3 THEN <<cp[1], point, cp[3]>> ELSE <<cp[1], point, point, cp[4]>>

\* lines 160-183
manipulatedPoints(N, cp, t, point) ==
  LET tn == Add(Pow(t, N - 1), Pow(Sub(One, t), N - 1))
      r == RAbs(Div(Sub(tn, One), tn))
      u == Div(Pow(Sub(One, t), N - 1), tn)
      C == PAdd(PScale(u, cp[1]), PScale(Sub(One, u), cp[N]))
      B == point
      A == PSub(B, PScale(Div(One, r), PSub(C, B)))
      s == Sub(One, t)
      quad(a, b, c) ==
        PAdd(PAdd(PScale(Pow(s, 2), a), PScale(Mul(I(2), Mul(t, s)), b)),
             PScale(Pow(t, 2), c))
      e1 == PSub(PAdd(B, quad(cp[1], cp[2], cp[3])), valueAt(N, cp, t))
      e2 == PSub(PAdd(B, quad(cp[2], cp[3], cp[4])), valueAt(N, cp, t))
      v1 == PSub(A, PScale(Div(One, s), PSub(A, e1)))
      v2 == PAdd(A, PScale(Div(One, t), PSub(e2, A)))
  IN  IF N = 3 THEN <<cp[1], A, cp[3]>>
      ELSE <<cp[1],
             PAdd(cp[1], PScale(Div(One, t), PSub(v1, cp[1]))),
             PSub(cp[4], PScale(Div(One, s), PSub(cp[4], v2))),
             cp[4]>>

RECURSIVE nthDerivativePoints(_, _)
\* the control points of derivative(n) of a curve with control points cp
nthDerivativePoints(cp, n) ==
  IF n = 0 THEN cp ELSE nthDerivativePoints(derivativePoints(Len(cp), cp), n - 1)

pascalAlterating(c) ==
  MatExp(V([i \in 1..(c + 1) |-> V([j \in 1..(c + 1) |-> IF i = j + 1 THEN I(-j) ELSE Zero])]))

RECURSIVE bellLoop(_, _, _, _)
\* lines 526-532, from step i on (i counts from 0): column c-i-1 gets, in
\* rows 1..i+1, the block of rows 0..i and columns c-i..c times the weights
bellLoop(bell, pascal, beta, i) ==
  LET c == Len(beta)
      w == V([j \in 1..(i + 1) |-> Mul(RAbs(pascal[i + 1][j]), beta[j])])
      col == V([r \in 1..(i + 1) |->
               SumSeq(V([j \in 1..(i + 1) |-> Mul(bell[r][c - i + j], w[j])]))])
      next == V([r \in 1..(c + 1) |-> V([q \in 1..(c + 1) |->
                IF q = c - i /\ r >= 2 /\ r <= i + 2 THEN col[r - 1] ELSE bell[r][q]])])
  IN  IF i >= c THEN bell ELSE bellLoop(next, pascal, beta, i + 1)

bellMatrix(beta) ==
  LET c == Len(beta)
      first == V([r \in 1..(c + 1) |-> V([q \in 1..(c + 1) |->
                 IF r = 1 /\ q = c + 1 THEN One ELSE Zero])])
  IN  bellLoop(first, pascalAlterating(c), beta, 0)

continuityPoints(N, cp, source_cp, beta) ==
  LET c == Len(beta)
      factorial_matrix ==
        V([i \in 1..(c + 1) |-> V([j \in 1..(c + 1) |->
          IF i = j THEN I(factorial(N - 1) \div factorial(N - 1 - (i - 1))) ELSE Zero])])
      last(ps) == ps[Len(ps)]
      \* 2 x (c+1): column i is the last control point of derivative i
      derivatives ==
        V([x \in 1..2 |-> V([i \in 1..(c + 1) |->
          last(nthDerivativePoints(source_cp, i - 1))[x]])])
      product == MatMul(derivatives, bellMatrix(beta))
      \* rowwise().reverse().transpose(): (c+1) x 2
      derivatives_wanted ==
        V([j \in 1..(c + 1) |-> V([x \in 1..2 |-> product[x][c + 2 - j]])])
      top == MatMulC(Inverse(MatMul(factorial_matrix, pascalAlterating(c))),
                     derivatives_wanted, 2)
  IN  V([k \in 1..N |-> IF k <= c + 1 THEN top[k] ELSE cp[k]])


\* ------------------------------------------------------------------------
\* State: one Curve object (bezier.cpp 21-559)
\* ------------------------------------------------------------------------

VARIABLES
  N_,                  \* number of control points
  control_points_,     \* N x 2 matrix
  \* The cache slots are pointers: <<>> is the null pointer, <<v>> points
  \* to v.
  cached_derivative_,  \* a Curve object (see NewCurve)
  cached_roots_,
  cached_bounding_box_,
  cached_polyline_,
  cached_polyline_flatness_,
  cached_projection_polynomial_part_,
  cached_projection_polynomial_derivative_,
  op,                  \* the last call: <<name, arguments>>
  ret,                 \* what it returned (<<>> when it threw)
  err,                 \* "none", or the exception it threw
  opsLeft,             \* mutating calls still to be made
  queriesLeft,         \* queries still to be made
  history              \* the control points before each mutating call made

\* The process-wide coefficient maps (bezier.cpp 561-565) and the threads
\* that call their getters.
VARIABLES
  bernstein_coeffs_,       \* key n -> <<>> (no entry) or <<matrix>>
  elevate_order_coeffs_,   \* the same for the elevation matrices
  threads                  \* per thread: the getter it runs and where it stands

coeffVars == <<bernstein_coeffs_, elevate_order_coeffs_, threads>>

\* One call of intersections() (bezier.cpp 345-450).
VARIABLES
  subcurve_pairs,          \* the work stack; its back is its last element
  points_of_intersection,  \* the points accepted so far
  i_call,                  \* the call: this curve, the other, epsilon, the order
  i_pc,                    \* "cut" while the curve is cut at its extrema (self
                           \* case), "loop" inside the while loop, "done" after return
  self_t,                  \* self case: the local t, the sorted extrema
  self_subcurves,          \* self case: the local subcurves
  self_k                   \* self case: the extrema cut at so far (the loop's k)

interVars ==
  <<subcurve_pairs, points_of_intersection, i_call, i_pc, self_t, self_subcurves, self_k>>

\* a call of iterateByLength(): its arguments, its locals t and f, where it
\* is, and what it returned
VARIABLES iter_call, iter_t, iter_f, iter_pc, iter_ret
iterVars == <<iter_call, iter_t, iter_f, iter_pc, iter_ret>>

\* One call of Sturm::roots() (sturm.h 119-188).
VARIABLES
  s_call,                  \* the call: polynomial, epsilon, and the roots it is known to have
  sturm_chain,             \* the local sturm_chain
  intervals,               \* the work stack of <<a, b, flag>>; its back is its last element
  s_roots,                 \* the local roots
  s_pc                     \* "enter", "loop" inside the while loop, "done" after return
sturmVars == <<s_call, sturm_chain, intervals, s_roots, s_pc>>

curveVars ==
  <<N_, control_points_, cached_derivative_, cached_roots_, cached_bounding_box_,
    cached_polyline_, cached_polyline_flatness_, cached_projection_polynomial_part_,
    cached_projection_polynomial_derivative_, op, ret, err, opsLeft, queriesLeft,
    history>>

\* the per-curve cache slots
cacheSlots ==
  <<cached_derivative_, cached_roots_, cached_bounding_box_, cached_polyline_,
    cached_polyline_flatness_, cached_projection_polynomial_part_,
    cached_projection_polynomial_derivative_>>

\* a Curve object held by a cached_derivative_ pointer: of its slots the
\* code itself fills the derivative and the roots
NewCurve(points) ==
  [N_ |-> Len(points), control_points_ |-> points,
   cached_derivative_ |-> <<>>, cached_roots_ |-> <<>>]

\* a derivative() that makes a new object on every call
derivativeSlotAlwaysNew(N, cp, slot) == <<NewCurve(derivativePoints(N, cp))>>

\* lines 261-268: the slot after derivative()
derivativeSlot(N, cp, slot) ==
  IF slot = <<>> THEN <<NewCurve(derivativePoints(N, cp))>> ELSE slot

RECURSIVE derivativeSlotN(_, _, _, _)
\* lines 275-277: the slot after derivative(n), n >= 1
derivativeSlotN(N, cp, slot, n) ==
  LET chain(d) ==
        IF n = 1 THEN <<d>>
        ELSE <<[d EXCEPT !.cached_derivative_ =
                  derivativeSlotN(d.N_, d.control_points_, d.cached_derivative_, n - 1)]>>
  IN  chain(derivativeSlot(N, cp, slot)[1])

RECURSIVE nthDerivative(_, _)
\* the object derivative(n) returns a reference to
nthDerivative(slot, n) ==
  IF n = 1 THEN slot[1] ELSE nthDerivative(slot[1].cached_derivative_, n - 1)

\* lines 287-315: the roots slot after roots()
rootsSlot(N, cp, slot) == IF slot = <<>> THEN <<computeRoots(N, cp)>> ELSE slot

\* line 318: the derivative slot after extrema() = derivative().roots()
extremaSlot(N, cp, slot) ==
  LET with(d) ==
        <<[d EXCEPT !.cached_roots_ = rootsSlot(d.N_, d.control_points_, d.cached_roots_)]>>
  IN  with(derivativeSlot(N, cp, slot)[1])

ExtremaSolvable(N, cp) == RootsSolvable(Len(derivativePoints(N, cp)), derivativePoints(N, cp))

\* resetCache that leaves the polyline slot filled
resetCacheKeepsPolyline ==
  /\ N_' = Len(control_points_')
  /\ cached_derivative_' = <<>>
  /\ cached_roots_' = <<>>
  /\ cached_bounding_box_' = <<>>
  /\ cached_projection_polynomial_part_' = <<>>
  /\ UNCHANGED <<cached_polyline_, cached_polyline_flatness_,
                 cached_projection_polynomial_derivative_>>

\* resetCache that leaves the stored count as it was
resetCacheKeepsCount ==
  /\ N_' = N_
  /\ cached_derivative_' = <<>>
  /\ cached_roots_' = <<>>
  /\ cached_bounding_box_' = <<>>
  /\ cached_polyline_' = <<>>
  /\ cached_projection_polynomial_part_' = <<>>
  /\ UNCHANGED <<cached_polyline_flatness_, cached_projection_polynomial_derivative_>>

\* lines 551-559, run after control_points_ has been assigned
resetCache ==
  /\ N_' = Len(control_points_')
  /\ cached_derivative_' = <<>>
  /\ cached_roots_' = <<>>
  /\ cached_bounding_box_' = <<>>
  /\ cached_polyline_' = <<>>
  /\ cached_projection_polynomial_part_' = <<>>
  /\ UNCHANGED <<cached_polyline_flatness_, cached_projection_polynomial_derivative_>>

\* a call that returns v and leaves the object as it is
Returns(name, args, v) ==
  /\ op' = <<name, args>>
  /\ ret' = v
  /\ err' = "none"
  /\ UNCHANGED <<coeffVars, interVars, iterVars, sturmVars>>

\* a call that drops the stored polyline and then throws
ThrowsAfterReset(name, args, what) ==
  /\ op' = <<name, args>>
  /\ ret' = <<>>
  /\ err' = what
  /\ cached_polyline_' = <<>>
  /\ UNCHANGED <<N_, control_points_, cached_derivative_, cached_roots_,
                 cached_bounding_box_, cached_polyline_flatness_,
                 cached_projection_polynomial_part_,
                 cached_projection_polynomial_derivative_, opsLeft, queriesLeft,
                 history>>
  /\ UNCHANGED <<coeffVars, interVars, iterVars, sturmVars>>

\* a call that throws before it touches the object
Throws(name, args, what) ==
  /\ op' = <<name, args>>
  /\ ret' = <<>>
  /\ err' = what
  /\ UNCHANGED <<N_, control_points_, cacheSlots, opsLeft, queriesLeft, history>>
  /\ UNCHANGED <<coeffVars, interVars, iterVars, sturmVars>>

\* ------------------------------------------------------------------------
\* Inputs of the model
\* ------------------------------------------------------------------------

\* mutating calls made on one curve
MaxOps == 1
MaxQueries == 2
\* the largest n of derivative(n)
MaxDeriv == 2

\* curves the object is constructed from, assigned from, or continued from
Line2 == <<Pt(0, 0), Pt(8, 0)>>
Arch3 == <<Pt(0, 0), Pt(4, 9), Pt(8, 0)>>
Bend3 == <<Pt(0, 0), Pt(8, 0), Pt(8, 8)>>
Wave4 == <<Pt(0, 0), Pt(4, 8), Pt(8, -8), Pt(12, 0)>>
InitCurves == {Line2, Arch3, Wave4}
OtherCurves == {Bend3}
MovePoints == {Pt(4, 10)}
\* parameters inside and outside [0, 1]
Params == {Zero, Half, One, Rat(-1, 2), Rat(3, 2)}
SplitParams == {Half, Rat(1, 4), Rat(3, 2)}
DerivativeParams == {Half, Rat(-1, 2)}
InnerParams == {Half, Rat(1, 4)}
\* flatness values, two of them closer than the tolerance of line 57
Flatnesses == {I(4), I(5), I(8)}
ProjectedPoints == {Pt(2, 3)}
BetaCoeffs == {<<One>>, <<One, Zero>>}


\* ------------------------------------------------------------------------
\* Construction (bezier.cpp 21-32)
\* ------------------------------------------------------------------------

Construct(points) ==
  /\ control_points_ = points
  /\ N_ = Len(points)
  /\ cached_derivative_ = <<>>
  /\ cached_roots_ = <<>>
  /\ cached_bounding_box_ = <<>>
  /\ cached_polyline_ = <<>>
  /\ cached_polyline_flatness_ = Zero
  /\ cached_projection_polynomial_part_ = <<>>
  /\ cached_projection_polynomial_derivative_ = <<>>
  /\ op = <<"Curve", points>>
  /\ ret = <<>>
  /\ err = "none"
  /\ history = <<>>

\* ------------------------------------------------------------------------
\* Mutating operations
\* ------------------------------------------------------------------------

Mutates(name, args) ==
  /\ opsLeft > 0
  /\ opsLeft' = opsLeft - 1
  /\ history' = Append(history, control_points_)
  /\ UNCHANGED queriesLeft
  /\ Returns(name, args, <<>>)

\* lines 34-39
Assign(curve) ==
  /\ Mutates("operator=", curve)
  /\ control_points_' = curve
  /\ resetCache

\* reverse that swaps the two end points only
ReverseSwapsEnds ==
  /\ Mutates("reverse", <<>>)
  /\ control_points_' = [control_points_ EXCEPT ![1] = control_points_[N_],
                                                ![N_] = control_points_[1]]
  /\ resetCache

\* lines 143-147
Reverse ==
  /\ Mutates("reverse", <<>>)
  /\ control_points_' = V([k \in 1..Len(control_points_) |->
                           control_points_[Len(control_points_) + 1 - k]])
  /\ resetCache

\* lines 149-153 (idx counts from 1 here)
MoveControlPoint(idx, point) ==
  /\ Mutates("moveControlPoint", <<idx, point>>)
  /\ control_points_' = [control_points_ EXCEPT ![idx] = point]
  /\ resetCache

\* lines 155-185
ManipulateCurvature(t, point) ==
  IF N_ < 3 \/ N_ > 4
  THEN Throws("manipulateCurvature", <<t, point>>, "logic_error")
  ELSE /\ Mutates("manipulateCurvature", <<t, point>>)
       /\ control_points_' = manipulatedPoints(N_, control_points_, t, point)
       /\ resetCache

\* elevateOrder that repeats the last control point
ElevateOrderRepeatsLast ==
  /\ Mutates("elevateOrder", <<>>)
  /\ N_ < MaxN
  /\ control_points_' = Append(control_points_, control_points_[N_])
  /\ resetCache

\* lines 187-191
ElevateOrder ==
  /\ Mutates("elevateOrder", <<>>)
  /\ N_ < MaxN
  /\ control_points_' = MatMulC(elevateOrderCoeffs(N_), control_points_, 2)
  /\ resetCache

\* lines 193-199
LowerOrder ==
  IF N_ = 2
  THEN Throws("lowerOrder", <<>>, "logic_error")
  ELSE /\ Mutates("lowerOrder", <<>>)
       /\ control_points_' = MatMulC(lowerOrderCoeffs(N_), control_points_, 2)
       /\ resetCache

\* lines 516-549; the curve has at least Len(beta_coeffs) + 1 points
ApplyContinuity(source_curve, beta_coeffs) ==
  /\ Mutates("applyContinuity", <<source_curve, beta_coeffs>>)
  /\ Len(beta_coeffs) + 1 <= N_
  /\ control_points_' = continuityPoints(N_, control_points_, source_curve, beta_coeffs)
  /\ resetCache

\* ------------------------------------------------------------------------
\* Queries.  A query leaves the control points alone; the cached ones fill
\* their slot.
\* ------------------------------------------------------------------------

Keeps(slots) ==
  /\ queriesLeft > 0
  /\ queriesLeft' = queriesLeft - 1
  /\ UNCHANGED <<N_, control_points_, opsLeft, history>>
  /\ UNCHANGED slots

\* line 41
Order ==
  /\ Keeps(cacheSlots)
  /\ Returns("order", <<>>, N_ - 1)

\* valueAt with a test of t in front
ValueAtChecked(t) ==
  IF InUnit(t)
  THEN /\ Keeps(cacheSlots)
       /\ Returns("valueAt", t, valueAt(N_, control_points_, t))
  ELSE Throws("valueAt", t, "logic_error")

\* lines 201-208: no test of t
ValueAt(t) ==
  /\ Keeps(cacheSlots)
  /\ Returns("valueAt", t, valueAt(N_, control_points_, t))

\* lines 340-343: no test of z
SplitCurve(z) ==
  /\ Keeps(cacheSlots)
  /\ Returns("splitCurve", z, splitCurve(N_, control_points_, z))

otherSlots ==
  <<cached_roots_, cached_bounding_box_, cached_polyline_, cached_polyline_flatness_,
    cached_projection_polynomial_part_, cached_projection_polynomial_derivative_>>

\* what a caller sees of a Curve reference
Seen(curve) == [N_ |-> curve.N_, control_points_ |-> curve.control_points_]

\* lines 259-269
Derivative ==
  /\ Keeps(otherSlots)
  /\ cached_derivative_' = derivativeSlot(N_, control_points_, cached_derivative_)
  /\ Returns("derivative", <<>>, Seen(cached_derivative_'[1]))

\* lines 271-279
DerivativeN(n) ==
  IF n = 0
  THEN Throws("derivativeN", n, "invalid_argument")
  ELSE /\ Keeps(otherSlots)
       /\ cached_derivative_' = derivativeSlotN(N_, control_points_, cached_derivative_, n)
       /\ Returns("derivativeN", n, Seen(nthDerivative(cached_derivative_', n)))

\* line 281: no test of t
DerivativeAt(t) ==
  /\ Keeps(otherSlots)
  /\ cached_derivative_' = derivativeSlot(N_, control_points_, cached_derivative_)
  /\ Returns("derivativeAt", t,
             valueAt(cached_derivative_'[1].N_, cached_derivative_'[1].control_points_, t))

\* lines 245-251, normalize = false: no test of t
TangentAt(t) ==
  /\ Keeps(otherSlots)
  /\ cached_derivative_' = derivativeSlot(N_, control_points_, cached_derivative_)
  /\ Returns("tangentAt", t,
             valueAt(cached_derivative_'[1].N_, cached_derivative_'[1].control_points_, t))

\* lines 253-257, normalize = false: the tangent turned by a quarter
normalOf(tangent) == <<Neg(tangent[2]), tangent[1]>>
NormalAt(t) ==
  /\ Keeps(otherSlots)
  /\ cached_derivative_' = derivativeSlot(N_, control_points_, cached_derivative_)
  /\ Returns("normalAt", t,
             normalOf(valueAt(cached_derivative_'[1].N_,
                              cached_derivative_'[1].control_points_, t)))

\* lines 285-316
Roots ==
  /\ Keeps(<<cached_derivative_, cached_bounding_box_, cached_polyline_,
             cached_polyline_flatness_, cached_projection_polynomial_part_,
             cached_projection_polynomial_derivative_>>)
  /\ RootsSolvable(N_, control_points_)
  /\ cached_roots_' = rootsSlot(N_, control_points_, cached_roots_)
  /\ Returns("roots", <<>>, cached_roots_'[1])

\* line 318
Extrema ==
  /\ Keeps(otherSlots)
  /\ ExtremaSolvable(N_, control_points_)
  /\ cached_derivative_' = extremaSlot(N_, control_points_, cached_derivative_)
  /\ Returns("extrema", <<>>, cached_derivative_'[1].cached_roots_[1])

\* lines 320-338
BoundingBox ==
  /\ Keeps(<<cached_roots_, cached_polyline_, cached_polyline_flatness_,
             cached_projection_polynomial_part_,
             cached_projection_polynomial_derivative_>>)
  /\ ExtremaSolvable(N_, control_points_)
  /\ IF cached_bounding_box_ = <<>>
     THEN /\ cached_derivative_' = extremaSlot(N_, control_points_, cached_derivative_)
          /\ cached_bounding_box_' =
               <<computeBoundingBox(N_, control_points_,
                                    cached_derivative_'[1].cached_roots_[1])>>
     ELSE UNCHANGED <<cached_derivative_, cached_bounding_box_>>
  /\ Returns("boundingBox", <<>>, cached_bounding_box_'[1])

\* lines 55-104
Polyline(flatness) ==
  /\ Keeps(<<cached_derivative_, cached_roots_, cached_bounding_box_,
             cached_projection_polynomial_part_,
             cached_projection_polynomial_derivative_>>)
  /\ IF polylineReuses(cached_polyline_, cached_polyline_flatness_, flatness)
     THEN UNCHANGED <<cached_polyline_, cached_polyline_flatness_>>
     ELSE /\ cached_polyline_flatness_' = flatness
          /\ \E polyline \in polylines(N_, control_points_, flatness) :
               cached_polyline_' = <<polyline>>
  /\ Returns("polyline", flatness, cached_polyline_'[1])

\* lines 452-496
ProjectPoint(point) ==
  /\ Keeps(<<cached_roots_, cached_bounding_box_, cached_polyline_,
             cached_polyline_flatness_>>)
  /\ ProjectionSolvable(N_, control_points_, point)
  /\ IF cached_projection_polynomial_part_ = <<>>
     THEN /\ cached_derivative_' = derivativeSlot(N_, control_points_, cached_derivative_)
          /\ cached_projection_polynomial_part_' = <<polynomialPart(N_, control_points_)>>
          /\ cached_projection_polynomial_derivative_' =
               MatMulC(bernsteinCoeffs(N_ - 1), cached_derivative_'[1].control_points_, 2)
     ELSE UNCHANGED <<cached_derivative_, cached_projection_polynomial_part_,
                      cached_projection_polynomial_derivative_>>
  /\ Returns("projectPoint", point,
             projectWith(N_, control_points_, cached_projection_polynomial_part_'[1],
                         cached_projection_polynomial_derivative_', point))

CurveInit ==
  /\ \E points \in InitCurves : Construct(points)
  /\ opsLeft = MaxOps
  /\ queriesLeft = MaxQueries

\* the mutating calls
MutateNext ==
  \/ \E curve \in OtherCurves : Assign(curve)
  \/ Reverse
  \/ \E idx \in 1..N_, point \in MovePoints : MoveControlPoint(idx, point)
  \/ \E t \in InnerParams, point \in MovePoints : ManipulateCurvature(t, point)
  \/ ElevateOrder
  \/ LowerOrder
  \/ \E source_curve \in OtherCurves, beta_coeffs \in BetaCoeffs :
       ApplyContinuity(source_curve, beta_coeffs)

CurveNext ==
  \/ MutateNext
  \/ Order
  \/ \E t \in Params : ValueAt(t)
  \/ \E z \in SplitParams : SplitCurve(z)
  \/ Derivative
  \/ \E n \in 0..MaxDeriv : DerivativeN(n)
  \/ \E t \in DerivativeParams : DerivativeAt(t)
  \/ \E t \in DerivativeParams : TangentAt(t)
  \/ \E t \in DerivativeParams : NormalAt(t)
  \/ Roots
  \/ Extrema
  \/ BoundingBox
  \/ \E flatness \in Flatnesses : Polyline(flatness)
  \/ \E point \in ProjectedPoints : ProjectPoint(point)

\* ------------------------------------------------------------------------
\* The coefficient maps under concurrent callers (bezier.cpp 561-629).
\* The getters take no lock; each statement of a getter is one step of the
\* thread that runs it.
\* ------------------------------------------------------------------------

\* threads that call a getter
Threads == 2
\* the largest key a thread asks for
CoeffN == 3

IdleThread == [pc |-> "idle", table |-> "none", n |-> 0, k |-> 0, ret |-> <<>>]

\* a matrix with irrational entries, which the model does not write down:
\* the exponential of a matrix that is not nilpotent
Irrational == <<>>

IsNilpotent(A) == \A i \in 1..Rows(A) : \A j \in i..Cols(A) : A[i][j] = Zero

\* line 572: entry.diagonal(-1) = -LinSpaced(n - 1, 1, n - 1)
withSubdiagonal(A, n) ==
  IF A = Irrational THEN Irrational
  ELSE V([i \in 1..n |-> V([j \in 1..n |-> IF i = j + 1 THEN I(-j) ELSE A[i][j]])])

\* line 573: entry = entry.exp()
exponential(A) == IF A # Irrational /\ IsNilpotent(A) THEN MatExp(A) ELSE Irrational

\* line 575: entry.row(k) *= binomial(n - 1, k), k counted from 0
withRowScaled(A, n, k) ==
  IF A = Irrational THEN Irrational
  ELSE [A EXCEPT ![k + 1] = V([j \in 1..n |-> Mul(I(binomial(n - 1, k)), A[k + 1][j])])]

\* line 625: entry.diagonal() = 1 - LinSpaced(n, 0, n - 1) / n
withElevateDiagonal(A, n) ==
  V([i \in 1..(n + 1) |->
    V([j \in 1..n |-> IF i = j THEN Sub(One, Rat(i - 1, n)) ELSE A[i][j]])])

\* line 626: entry.diagonal(-1) = LinSpaced(n, 1, n) / n
withElevateSubdiagonal(A, n) ==
  V([i \in 1..(n + 1) |->
    V([j \in 1..n |-> IF i = j + 1 THEN Rat(j, n) ELSE A[i][j]])])

CoeffInit ==
  /\ bernstein_coeffs_ = [n \in 1..CoeffN |-> <<>>]
  /\ elevate_order_coeffs_ = [n \in 1..CoeffN |-> <<>>]
  /\ threads = [i \in 1..Threads |-> IdleThread]

CoeffsMapOf(table) ==
  IF table = "bernstein" THEN bernstein_coeffs_ ELSE elevate_order_coeffs_

\* thread i moves to pc, its other fields as given
Step(i, pc, k, value) ==
  threads' = [threads EXCEPT ![i] = [@ EXCEPT !.pc = pc, !.k = k, !.ret = value]]

\* a thread enters bernsteinCoeffs(n) or elevateOrderCoeffs(n)
CallCoeffs(i, table, n) ==
  /\ threads[i].pc = "idle"
  /\ threads' = [threads EXCEPT ![i] = [IdleThread EXCEPT !.pc = "find", !.table = table, !.n = n]]
  /\ UNCHANGED <<bernstein_coeffs_, elevate_order_coeffs_, curveVars, interVars, iterVars, sturmVars>>

\* lines 569, 622: if (map.find(n) == map.end())
Find(i) ==
  /\ threads[i].pc = "find"
  /\ Step(i, IF CoeffsMapOf(threads[i].table)[threads[i].n] = <<>> THEN "insert" ELSE "return",
          0, <<>>)
  /\ UNCHANGED <<bernstein_coeffs_, elevate_order_coeffs_, curveVars, interVars, iterVars, sturmVars>>

\* line 571: insert({n, Zero(n, n)}), which keeps an entry that is there
BernsteinInsert(i) ==
  /\ threads[i].pc = "insert" /\ threads[i].table = "bernstein"
  /\ bernstein_coeffs_' =
       IF bernstein_coeffs_[threads[i].n] = <<>>
       THEN [bernstein_coeffs_ EXCEPT ![threads[i].n] = <<ZeroMat(threads[i].n, threads[i].n)>>]
       ELSE bernstein_coeffs_
  /\ Step(i, "diagonal", 0, <<>>)
  /\ UNCHANGED <<elevate_order_coeffs_, curveVars, interVars, iterVars, sturmVars>>

\* line 572
BernsteinDiagonal(i) ==
  /\ threads[i].pc = "diagonal" /\ threads[i].table = "bernstein"
  /\ bernstein_coeffs_' =
       [bernstein_coeffs_ EXCEPT ![threads[i].n] = <<withSubdiagonal(@[1], threads[i].n)>>]
  /\ Step(i, "exp", 0, <<>>)
  /\ UNCHANGED <<elevate_order_coeffs_, curveVars, interVars, iterVars, sturmVars>>

\* line 573
BernsteinExp(i) ==
  /\ threads[i].pc = "exp"
  /\ bernstein_coeffs_' = [bernstein_coeffs_ EXCEPT ![threads[i].n] = <<exponential(@[1])>>]
  /\ Step(i, "rows", 0, <<>>)
  /\ UNCHANGED <<elevate_order_coeffs_, curveVars, interVars, iterVars, sturmVars>>

\* lines 574-575: one turn of the loop over the rows
BernsteinRow(i) ==
  /\ threads[i].pc = "rows"
  /\ bernstein_coeffs_' =
       [bernstein_coeffs_ EXCEPT ![threads[i].n] =
          <<withRowScaled(@[1], threads[i].n, threads[i].k)>>]
  /\ Step(i, IF threads[i].k + 1 < threads[i].n THEN "rows" ELSE "return",
          threads[i].k + 1, <<>>)
  /\ UNCHANGED <<elevate_order_coeffs_, curveVars, interVars, iterVars, sturmVars>>

\* line 624: insert({n, Zero(n + 1, n)})
ElevateInsert(i) ==
  /\ threads[i].pc = "insert" /\ threads[i].table = "elevate"
  /\ elevate_order_coeffs_' =
       IF elevate_order_coeffs_[threads[i].n] = <<>>
       THEN [elevate_order_coeffs_ EXCEPT
               ![threads[i].n] = <<ZeroMat(threads[i].n + 1, threads[i].n)>>]
       ELSE elevate_order_coeffs_
  /\ Step(i, "diagonal", 0, <<>>)
  /\ UNCHANGED <<bernstein_coeffs_, curveVars, interVars, iterVars, sturmVars>>

\* line 625
ElevateDiagonal(i) ==
  /\ threads[i].pc = "diagonal" /\ threads[i].table = "elevate"
  /\ elevate_order_coeffs_' =
       [elevate_order_coeffs_ EXCEPT
          ![threads[i].n] = <<withElevateDiagonal(@[1], threads[i].n)>>]
  /\ Step(i, "subdiagonal", 0, <<>>)
  /\ UNCHANGED <<bernstein_coeffs_, curveVars, interVars, iterVars, sturmVars>>

\* line 626
ElevateSubdiagonal(i) ==
  /\ threads[i].pc = "subdiagonal"
  /\ elevate_order_coeffs_' =
       [elevate_order_coeffs_ EXCEPT
          ![threads[i].n] = <<withElevateSubdiagonal(@[1], threads[i].n)>>]
  /\ Step(i, "return", 0, <<>>)
  /\ UNCHANGED <<bernstein_coeffs_, curveVars, interVars, iterVars, sturmVars>>

\* lines 577, 628: return map[n], a copy of the entry as it is now
ReturnCoeffs(i) ==
  /\ threads[i].pc = "return"
  /\ Step(i, "done", 0, CoeffsMapOf(threads[i].table)[threads[i].n][1])
  /\ UNCHANGED <<bernstein_coeffs_, elevate_order_coeffs_, curveVars, interVars, iterVars, sturmVars>>

CoeffNext ==
  \E i \in 1..Threads :
    \/ \E table \in {"bernstein", "elevate"}, n \in 2..CoeffN : CallCoeffs(i, table, n)
    \/ Find(i)
    \/ BernsteinInsert(i)
    \/ BernsteinDiagonal(i)
    \/ BernsteinExp(i)
    \/ BernsteinRow(i)
    \/ ElevateInsert(i)
    \/ ElevateDiagonal(i)
    \/ ElevateSubdiagonal(i)
    \/ ReturnCoeffs(i)

\* ------------------------------------------------------------------------
\* intersections() of two curves (bezier.cpp 345-450).  Whether the loop
\* ends is decided where the sub-curves get as small as a double can tell
\* apart, so here every coordinate the code stores is rounded as a double
\* is: to the nearest value of a grid, ties to the even one.  The grid
\* spacing is the unit of length.
\* ------------------------------------------------------------------------

\* the double nearest to the rational x
roundToDouble(x) ==
  LET q == x[1] \div x[2]
      r == x[1] - q * x[2]
  IN  IF 2 * r < x[2] THEN q
      ELSE IF 2 * r > x[2] THEN q + 1
      ELSE IF q % 2 = 0 THEN q ELSE q + 1

roundPoint(p) == <<I(roundToDouble(p[1])), I(roundToDouble(p[2]))>>
roundPoints(cp) == V([k \in 1..Len(cp) |-> roundPoint(cp[k])])

\* lines 387-390
bbox(cp) == <<<<MinBy(cp, 1), MinBy(cp, 2)>>, <<MaxBy(cp, 1), MaxBy(cp, 2)>>>>

\* line 400: AlignedBox::intersects, boxes that touch included
boxIntersects(b1, b2) ==
  /\ Le(b1[1][1], b2[2][1]) /\ Le(b2[1][1], b1[2][1])
  /\ Le(b1[1][2], b2[2][2]) /\ Le(b2[1][2], b1[2][2])

\* lines 404, 419, 430: bbox.diagonal().norm() < epsilon
boxIsSmall(b, epsilon) == Lt(Norm2(PSub(b[2], b[1])), Mul(epsilon, epsilon))

\* line 407: bbox1.center()
boxCenter(b) == roundPoint(PScale(Half, PAdd(b[1], b[2])))

\* a dedup test that lets every point in
isNewPointAlways(points, new_point, epsilon) == TRUE

\* a dedup test that lets in only the first point
isNewPointFirstOnly(points, new_point, epsilon) == Len(points) = 0

\* lines 408-409: std::none_of(..., (point - new_point).norm() < epsilon)
isNewPoint(points, new_point, epsilon) ==
  \A k \in 1..Len(points) :
    ~Lt(Norm2(PSub(points[k], new_point)), Mul(epsilon, epsilon))

\* the order the code works in, and the others it is compared with: which
\* end of the stack a pair is taken from, and which half is pushed first
CodeOrder == [take |-> "back", first |-> "right"]
Orders ==
  {[take |-> a, first |-> b] : a \in {"back", "front"}, b \in {"right", "left"}}

\* lines 419-439: a part that is small is kept, another is split in half
subcurvesOf(part, epsilon, first) ==
  IF boxIsSmall(bbox(part), epsilon) THEN <<part>>
  ELSE LET right == roundPoints(MatMulC(splitRightHalf(Len(part)), part, 2))
           left == roundPoints(MatMulC(splitLeftHalf(Len(part)), part, 2))
       IN  IF first = "right" THEN <<right, left>> ELSE <<left, right>>

\* lines 443-445: every pair of a sub-curve of a with one of b, b outermost
combinations(subcurves_a, subcurves_b) ==
  V([k \in 1..(Len(subcurves_a) * Len(subcurves_b)) |->
    <<subcurves_a[((k - 1) % Len(subcurves_a)) + 1],
      subcurves_b[((k - 1) \div Len(subcurves_a)) + 1]>>])

\* lines 394-445: one turn of the loop on the pair taken from the stack,
\* rest being the other pairs
loopTurn(part_a, part_b, rest, points, epsilon, first) ==
  IF ~boxIntersects(bbox(part_a), bbox(part_b))
  THEN [pairs |-> rest, points |-> points]
  ELSE IF boxIsSmall(bbox(part_a), epsilon) /\ boxIsSmall(bbox(part_b), epsilon)
  THEN [pairs |-> rest,
        points |-> IF isNewPoint(points, boxCenter(bbox(part_a)), epsilon)
                   THEN Append(points, boxCenter(bbox(part_a)))
                   ELSE points]
  ELSE [pairs |-> rest \o combinations(subcurvesOf(part_a, epsilon, first),
                                       subcurvesOf(part_b, epsilon, first)),
        points |-> points]

\* the pair the loop takes, and the pairs it leaves
taken(pairs, order) == IF order.take = "back" THEN pairs[Len(pairs)] ELSE pairs[1]
left_over(pairs, order) ==
  IF order.take = "back" THEN SubSeq(pairs, 1, Len(pairs) - 1) ELSE Tail(pairs)

\* curves on the grid
CrossA == <<Pt(0, 0), Pt(8, 8)>>
CrossB == <<Pt(0, 8), Pt(8, 0)>>
FlatA == <<Pt(0, 0), Pt(8, 0)>>
FlatB == <<Pt(2, 0), Pt(10, 0)>>
Hill == <<Pt(0, 0), Pt(4, 12), Pt(8, 0)>>
Level == <<Pt(0, 3), Pt(8, 3)>>
CurvePairs == {<<CrossA, CrossB>>, <<FlatA, FlatB>>, <<Hill, Level>>, <<Hill, CrossA>>}
\* epsilon: two and three times the grid spacing
Epsilons == {I(2), I(3)}
\* two crossing segments two grid steps wide, for an epsilon of one grid step
TinyA == <<Pt(0, 0), Pt(2, 2)>>
TinyB == <<Pt(0, 2), Pt(2, 0)>>

\* lines 347-354: after the first pair is on the stack
Entered(this, curve, epsilon, order) ==
  /\ subcurve_pairs = <<<<this, curve>>>>
  /\ points_of_intersection = <<>>
  /\ i_call = [this |-> this, curve |-> curve, epsilon |-> epsilon, order |-> order]
  /\ i_pc = "loop"
  /\ self_t = <<>> /\ self_subcurves = <<>> /\ self_k = 0

\* lines 392-446: one turn of the while loop
LoopTurn ==
  /\ i_pc = "loop"
  /\ Len(subcurve_pairs) > 0
  /\ LET turn == loopTurn(taken(subcurve_pairs, i_call.order)[1],
                          taken(subcurve_pairs, i_call.order)[2],
                          left_over(subcurve_pairs, i_call.order),
                          points_of_intersection, i_call.epsilon, i_call.order.first)
     IN  /\ subcurve_pairs' = turn.pairs
         /\ points_of_intersection' = turn.points
  /\ UNCHANGED <<i_call, i_pc, self_t, self_subcurves, self_k>>
  /\ UNCHANGED <<curveVars, coeffVars, iterVars, sturmVars>>

\* lines 392, 449: the stack is empty, the points are returned
ReturnPoints ==
  /\ i_pc = "loop"
  /\ Len(subcurve_pairs) = 0
  /\ i_pc' = "done"
  /\ UNCHANGED <<subcurve_pairs, points_of_intersection, i_call, self_t, self_subcurves, self_k>>
  /\ UNCHANGED <<curveVars, coeffVars, iterVars, sturmVars>>

InterNext == LoopTurn \/ ReturnPoints

\* ------------------------------------------------------------------------
\* intersections() of a curve with itself (bezier.cpp 355-385): the curve is
\* cut at its extrema and every two of the pieces are put on the stack
\* ------------------------------------------------------------------------

RECURSIVE insertAscending(_, _)
insertAscending(x, ts) ==
  IF Len(ts) = 0 THEN <<x>>
  ELSE IF Lt(ts[1], x) THEN <<ts[1]>> \o insertAscending(x, Tail(ts))
  ELSE <<x>> \o ts

RECURSIVE sortAscending(_)
\* line 359: std::sort(t.begin(), t.end())
sortAscending(ts) ==
  IF Len(ts) = 0 THEN <<>> ELSE insertAscending(ts[1], sortAscending(Tail(ts)))

\* a cut that leaves the piece it cuts on the list
cutLastKeepsWhole(N, cp, subcurves, t_k, epsilon) ==
  LET new_cp == IF Len(subcurves) = 0 THEN cp ELSE subcurves[Len(subcurves)]
      half == Mul(Half, epsilon)
  IN  subcurves \o <<MatMulC(splittingCoeffsLeft(N, Sub(t_k, half)), new_cp, 2),
                     MatMulC(splittingCoeffsRight(N, Add(t_k, half)), new_cp, 2)>>

\* lines 363-374: the curve (first turn) or the last piece (later turns) is
\* replaced by its part left of t_k - epsilon / 2 and its part right of
\* t_k + epsilon / 2
cutLast(N, cp, subcurves, t_k, epsilon) ==
  LET new_cp == IF Len(subcurves) = 0 THEN cp ELSE subcurves[Len(subcurves)]
      others == IF Len(subcurves) = 0 THEN <<>>
                ELSE SubSeq(subcurves, 1, Len(subcurves) - 1)
      half == Mul(Half, epsilon)
  IN  others \o <<MatMulC(splittingCoeffsLeft(N, Sub(t_k, half)), new_cp, 2),
                  MatMulC(splittingCoeffsRight(N, Add(t_k, half)), new_cp, 2)>>

\* line 377: the extrema after the k-th are rescaled to the part right of it
rescaled(ts, k) ==
  V([i \in 1..Len(ts) |->
    IF i > k THEN Div(Sub(ts[i], ts[k]), Sub(One, ts[k])) ELSE ts[i]])

RECURSIVE pairsFrom(_, _)
\* lines 381-384: for k, for i > k: (subcurves[k], subcurves[i])
pairsFrom(subcurves, k) ==
  IF k >= Len(subcurves) THEN <<>>
  ELSE V([i \in 1..(Len(subcurves) - k) |-> <<subcurves[k], subcurves[k + i]>>])
       \o pairsFrom(subcurves, k + 1)

\* curves for the self case; their extrema, and the parts they are cut
\* into, have short binary fractions
Straight == <<Pt(0, 0), Pt(1024, 1024)>>
Dome == <<Pt(0, 0), Pt(512, 1024), Pt(1024, 0)>>
Hook == <<Pt(0, 0), Pt(768, 256), Pt(512, 0)>>
Snake == <<Pt(0, 0), Pt(64, 192), Pt(128, 64), Pt(192, 128)>>
Loop == <<Pt(0, 0), Pt(48, 64), Pt(-32, 64), Pt(16, 0)>>
SelfCurves == {Straight, Dome, Hook, Snake}
SelfEpsilons == {Rat(1, 8), Rat(1, 4), Half, One}
\* Loop is cut three times; it is called with the epsilons that leave its
\* parts short fractions
LoopEpsilons == {Half, One}
SelfCalls ==
  (SelfCurves \X SelfEpsilons) \cup ({Loop} \X LoopEpsilons)

\* lines 347, 355-361: the extrema are sorted, nothing is cut yet
EnteredSelf(this, epsilon) ==
  /\ subcurve_pairs = <<>>
  /\ points_of_intersection = <<>>
  /\ i_call = [this |-> this, curve |-> this, epsilon |-> epsilon, order |-> CodeOrder]
  /\ i_pc = "cut"
  /\ self_t = sortAscending(computeRoots(Len(derivativePoints(Len(this), this)),
                                         derivativePoints(Len(this), this)))
  /\ self_subcurves = <<>>
  /\ self_k = 0

\* lines 361-378: one turn of the loop over the extrema
CutAtExtremum ==
  /\ i_pc = "cut"
  /\ self_k < Len(self_t)
  /\ self_subcurves' = cutLast(Len(i_call.this), i_call.this, self_subcurves,
                               self_t[self_k + 1], i_call.epsilon)
  /\ self_t' = rescaled(self_t, self_k + 1)
  /\ self_k' = self_k + 1
  /\ UNCHANGED <<subcurve_pairs, points_of_intersection, i_call, i_pc>>
  /\ UNCHANGED <<curveVars, coeffVars, iterVars, sturmVars>>

\* lines 361, 380-385: the extrema are used up, the pairs are made
PairSubcurves ==
  /\ i_pc = "cut"
  /\ self_k = Len(self_t)
  /\ subcurve_pairs' = pairsFrom(self_subcurves, 1)
  /\ i_pc' = "loop"
  /\ UNCHANGED <<points_of_intersection, i_call, self_t, self_subcurves, self_k>>
  /\ UNCHANGED <<curveVars, coeffVars, iterVars, sturmVars>>

SelfInit == \E call \in SelfCalls : EnteredSelf(call[1], call[2])
SelfNext == CutAtExtremum \/ PairSubcurves \/ LoopTurn \/ ReturnPoints

\* ------------------------------------------------------------------------
\* iterateByLength() (bezier.cpp 106-141) on curves that lie on the x axis,
\* where every norm is a rational number
\* ------------------------------------------------------------------------

\* Vector2d::norm()
norm(v) == RatSqrt(Norm2(v))

\* lines 281, 283: derivative(n).valueAt(t)
derivativeAt(cp, n, t) ==
  valueAt(Len(nthDerivativePoints(cp, n)), nthDerivativePoints(cp, n), t)

\* lines 112-115: the sum of weights[k] * |C'(abcissae[k] * (t2 - t1) / 2 +
\* (t1 + t2) / 2)| over a Gauss-Legendre table, whose weights add up to 2
\* and whose abscissae are symmetric about 0: for a speed that is linear
\* between t1 and t2 the sum is twice the speed in the middle
legendreGaussSum(cp, t1, t2) ==
  Mul(I(2), norm(derivativeAt(cp, 1, Div(Add(t1, t2), I(2)))))

\* lines 110-118
length(cp, t1, t2) == Mul(legendreGaussSum(cp, t1, t2), Div(Sub(t2, t1), I(2)))

\* line 136: the divisor of the Halley step
halleyDivisor(cp, t, f) ==
  Sub(Mul(I(2), Mul(norm(derivativeAt(cp, 1, t)), norm(derivativeAt(cp, 1, t)))),
      Mul(f, norm(derivativeAt(cp, 2, t))))

\* lines 135-136: t after the Halley step
halleyStep(cp, t, f) ==
  Sub(t, Div(Mul(I(2), Mul(f, norm(derivativeAt(cp, 1, t)))), halleyDivisor(cp, t, f)))

\* a quadratic curve that starts with speed 0: its first two points coincide
Stalled == <<Pt(0, 0), Pt(0, 0), Pt(4, 0)>>
IterCurves == {FlatA, Stalled}
IterStarts == {Zero, Half, One}
IterLengths == {I(-5), I(-1), I(1), I(2), I(3), I(9)}
IterEpsilons == {Rat(1, 4), Rat(1, 100)}

IterInit ==
  /\ \E curve \in IterCurves, t \in IterStarts, s \in IterLengths, epsilon \in IterEpsilons :
       iter_call = [curve |-> curve, t |-> t, s |-> s, epsilon |-> epsilon]
  /\ iter_t = iter_call.t
  /\ iter_f = Zero
  /\ iter_pc = "enter"
  /\ iter_ret = <<>>

\* iterateByLength that returns the start t where it should clamp
IterateEnterUnclamped ==
  /\ iter_pc = "enter"
  /\ LET s_t == length(iter_call.curve, Zero, iter_call.t)
     IN  IF \/ Lt(Add(s_t, iter_call.s), Zero)
            \/ Lt(length(iter_call.curve, Zero, One), Add(s_t, iter_call.s))
         THEN iter_pc' = "done" /\ iter_ret' = <<iter_call.t>> /\ UNCHANGED iter_f
         ELSE iter_pc' = "while" /\ iter_f' = Neg(iter_call.s) /\ UNCHANGED iter_ret
  /\ UNCHANGED <<iter_call, iter_t, curveVars, coeffVars, interVars, sturmVars>>

\* lines 123-130: s_t, the two early returns, and f{-s}
IterateEnter ==
  /\ iter_pc = "enter"
  /\ LET s_t == length(iter_call.curve, Zero, iter_call.t)
     IN  IF Lt(Add(s_t, iter_call.s), Zero)
         THEN iter_pc' = "done" /\ iter_ret' = <<Zero>> /\ UNCHANGED iter_f
         ELSE IF Lt(length(iter_call.curve, Zero, One), Add(s_t, iter_call.s))
         THEN iter_pc' = "done" /\ iter_ret' = <<One>> /\ UNCHANGED iter_f
         ELSE iter_pc' = "while" /\ iter_f' = Neg(iter_call.s) /\ UNCHANGED iter_ret
  /\ UNCHANGED <<iter_call, iter_t, curveVars, coeffVars, interVars, sturmVars>>

\* lines 132, 140: while (std::fabs(f) > epsilon), and return t after it
WhileTest ==
  /\ iter_pc = "while"
  /\ IF Lt(iter_call.epsilon, RAbs(iter_f))
     THEN iter_pc' = "halley" /\ UNCHANGED iter_ret
     ELSE iter_pc' = "done" /\ iter_ret' = <<iter_t>>
  /\ UNCHANGED <<iter_call, iter_t, iter_f, curveVars, coeffVars, interVars, sturmVars>>

\* lines 134-137: the body of the loop; the divisor is not 0 for IterCurves,
\* IterStarts and IterLengths
HalleyStep ==
  /\ iter_pc = "halley"
  /\ iter_t' = halleyStep(iter_call.curve, iter_t, iter_f)
  /\ iter_f' = Sub(Sub(length(iter_call.curve, Zero, iter_t'),
                       length(iter_call.curve, Zero, iter_call.t)), iter_call.s)
  /\ iter_pc' = "while"
  /\ UNCHANGED <<iter_call, iter_ret, curveVars, coeffVars, interVars, sturmVars>>

IterNext == IterateEnter \/ WhileTest \/ HalleyStep

\* ------------------------------------------------------------------------
\* Sturm root isolation (sturm.h 27-188).  A polynomial is the sequence of
\* its coefficients, highest degree first; a chain is a sequence of rows.
\* ------------------------------------------------------------------------

\* line 27: the default of chain()'s epsilon; roots() passes none (line 122)
ChainEpsilon == Rat(1, 1000)

head(v, k) == SubSeq(v, 1, k)
tail(v, k) == SubSeq(v, Len(v) - k + 1, Len(v))

\* line 40: fabs(d1.norm() - fabs(d1(d1.size() - 3))) < epsilon.  With c
\* the coefficient and rest the squares of the others summed, the norm is
\* sqrt(rest + c * c) >= |c|, and the test is rest < epsilon * (2 |c| + epsilon).
nearlyConstant(d1, epsilon) ==
  LET constant == RAbs(d1[Len(d1) - 2])
      rest == SumSeq(V([k \in 1..Len(d1) |->
                IF k = Len(d1) - 2 THEN Zero ELSE Mul(d1[k], d1[k])]))
  IN  Lt(rest, Mul(epsilon, Add(Mul(I(2), constant), epsilon)))

\* lines 32-33: the derivative, one column to the right
derivativeRow(polynomial) ==
  LET n == Len(polynomial)
  IN  V([c \in 1..(n + 2) |->
        IF c >= 2 /\ c <= n THEN Mul(I(n - (c - 1)), polynomial[c - 1]) ELSE Zero])

\* lines 45-49: the remainder of d2 by d1, negated, in columns i .. n-1
remainderRow(n, i, d2, d1) ==
  LET T == Div(d2[1], d1[1])
      M == Div(Sub(d2[2], Mul(T, d1[2])), d1[1])
  IN  V([c \in 1..(n + 2) |->
        IF c >= i + 1 /\ c <= n
        THEN Neg(Sub(Sub(d2[c - i + 2], Mul(M, d1[c - i + 1])), Mul(T, d1[c - i + 2])))
        ELSE Zero])

RECURSIVE trim(_)
\* lines 53-58: drop the leading zeros; of a zero vector the loop reads past
\* the end, which no input of the model gets to
trim(p) == IF p[1] = Zero THEN trim(Tail(p)) ELSE p

\* lines 59-63: p in the rightmost of the first n columns
inflate(n, p) ==
  V([c \in 1..(n + 2) |->
    IF c > n - Len(p) /\ c <= n THEN p[c - (n - Len(p))] ELSE Zero])

RECURSIVE longDivision(_, _)
\* lines 69-77
longDivision(r, b) ==
  IF Len(r) > 0 /\ Len(r) >= Len(b)
  THEN LET L == Div(r[1], b[1])
       IN  longDivision(
             trim(V([k \in 1..Len(r) |->
                      IF k <= Len(b) THEN Sub(r[k], Mul(L, b[k])) ELSE r[k]])),
             b)
  ELSE r

\* lines 65-78: the remainder of the trimmed d2 by the trimmed d1, as it is
degenerateRow(n, d2, d1) ==
  inflate(n, longDivision(trim(head(d2, Len(d2) - 2)), trim(head(d1, Len(d1) - 2))))

leftCols(rows, n) == V([k \in 1..Len(rows) |-> head(rows[k], n)])

RECURSIVE chainLoop(_, _, _, _)
\* lines 35-81: rows holds rows 0 .. i-1 of sturm_chain
chainLoop(rows, i, n, epsilon) ==
  IF i >= n THEN leftCols(rows, n)
  ELSE LET d2 == tail(rows[i - 1], n + 2 - i + 2)
           d1 == tail(rows[i], n + 2 - i + 1)
       IN  IF nearlyConstant(d1, epsilon) THEN leftCols(rows, n)
           ELSE IF Lt(epsilon, RAbs(d1[1]))
                THEN chainLoop(Append(rows, remainderRow(n, i, d2, d1)), i + 1, n, epsilon)
                ELSE chainLoop(Append(rows, degenerateRow(n, d2, d1)), i + 1, n, epsilon)

\* lines 27-82; a polynomial of one coefficient has the one row
chain(polynomial, epsilon) ==
  LET n == Len(polynomial)
      row0 == V([c \in 1..(n + 2) |-> IF c <= n THEN polynomial[c] ELSE Zero])
  IN  IF n = 1 THEN leftCols(<<row0>>, n)
      ELSE chainLoop(<<row0, derivativeRow(polynomial)>>, 2, n, epsilon)

\* std::signbit of a double computed as a sum of products: a sum that is
\* zero is +0.0
signbit(x) == Lt(x, Zero)

\* lines 93-99: the rows of the chain at t
signcount(chain_rows, t) ==
  V([k \in 1..Len(chain_rows) |->
     SumSeq(V([c \in 1..Len(chain_rows[k]) |->
                Mul(chain_rows[k][c], Pow(t, Len(chain_rows[k]) - c))]))])

\* lines 101-108
signChanges(values) ==
  Cardinality({k \in 2..Len(values) : signbit(values[k - 1]) # signbit(values[k])})

\* lines 91-110
interval(chain_rows, t1, t2) ==
  signChanges(signcount(chain_rows, t1)) - signChanges(signcount(chain_rows, t2))

\* lines 126-171 with root_type = All: what iterate(item) leaves of the
\* stack and of the roots.  The count is cast to uint: a negative one is
\* not 0 and not 1.
iterate(chain_rows, epsilon, item, stack, found) ==
  LET a == item[1]
      b == item[2]
      flag == item[3]
      a_b == Div(Add(a, b), I(2))
      root_num == interval(chain_rows, a, b)
      narrow == Lt(Sub(a_b, a), epsilon)
  IN  IF root_num = 0 THEN <<stack, found>>
      ELSE IF narrow THEN <<stack, Append(found, Div(Add(a, a_b), I(2)))>>
      ELSE <<stack \o <<<<a, a_b, flag>>, <<a_b, b, flag>>>>, found>>

\* polynomials with the real roots they have
SturmInputs ==
  { [polynomial |-> <<I(1), I(0)>>, known |-> {Zero}],
    [polynomial |-> <<I(-1), I(0)>>, known |-> {Zero}],
    [polynomial |-> <<I(1), I(-1)>>, known |-> {One}],
    [polynomial |-> <<I(-1), I(1)>>, known |-> {One}],
    [polynomial |-> <<I(2), I(-1)>>, known |-> {Half}],
    [polynomial |-> <<I(1), I(1)>>, known |-> {I(-1)}],
    [polynomial |-> <<I(16), I(-16), I(3)>>, known |-> {Rat(1, 4), Rat(3, 4)}],
    [polynomial |-> <<I(1), Rat(-3, 2), Rat(11, 16), Rat(-3, 32)>>,
     known |-> {Rat(1, 4), Half, Rat(3, 4)}],
    [polynomial |-> <<I(1), I(0), I(0), Rat(-5, 8), Rat(39, 256)>>,
     known |-> {Rat(1, 4), Rat(3, 4)}] }
SturmEpsilons == {Rat(1, 8), Rat(1, 30), Rat(1, 100)}

SturmInit ==
  /\ \E input \in SturmInputs, epsilon \in SturmEpsilons :
       s_call = [polynomial |-> input.polynomial, known |-> input.known,
                 epsilon |-> epsilon]
  /\ sturm_chain = <<>>
  /\ intervals = <<>>
  /\ s_roots = <<>>
  /\ s_pc = "enter"

\* lines 122-173
SturmEnter ==
  /\ s_pc = "enter"
  /\ sturm_chain' = chain(s_call.polynomial, ChainEpsilon)
  /\ LET out == iterate(sturm_chain', s_call.epsilon, <<Zero, One, FALSE>>,
                        intervals, s_roots)
     IN  intervals' = out[1] /\ s_roots' = out[2]
  /\ s_pc' = "loop"
  /\ UNCHANGED <<s_call, curveVars, coeffVars, interVars, iterVars>>

\* lines 175-185: one turn of the while loop
SturmTurn ==
  /\ s_pc = "loop"
  /\ Len(intervals) > 0
  /\ LET back == intervals[Len(intervals)]
         a == back[1]
         b == back[2]
         flag == back[3]
         a_b == Div(Add(a, b), I(2))
         first == iterate(sturm_chain, s_call.epsilon, <<a, a_b, flag>>,
                          SubSeq(intervals, 1, Len(intervals) - 1), s_roots)
         second == iterate(sturm_chain, s_call.epsilon, <<a_b, b, flag>>,
                           first[1], first[2])
     IN  intervals' = second[1] /\ s_roots' = second[2]
  /\ UNCHANGED <<s_call, sturm_chain, s_pc, curveVars, coeffVars, interVars, iterVars>>

\* line 187
SturmReturn ==
  /\ s_pc = "loop"
  /\ Len(intervals) = 0
  /\ s_pc' = "done"
  /\ UNCHANGED <<s_call, sturm_chain, intervals, s_roots, curveVars, coeffVars,
                 interVars, iterVars>>

SturmNext == SturmEnter \/ SturmTurn \/ SturmReturn

\* no call of Sturm::roots() is running
NoSturm ==
  /\ s_call = <<>>
  /\ sturm_chain = <<>>
  /\ intervals = <<>>
  /\ s_roots = <<>>
  /\ s_pc = "none"

\* no call of iterateByLength() is running
NoIterate ==
  /\ iter_call = <<>>
  /\ iter_t = Zero
  /\ iter_f = Zero
  /\ iter_pc = "none"
  /\ iter_ret = <<>>

\* no thread runs a getter
NoThreads ==
  /\ bernstein_coeffs_ = <<>>
  /\ elevate_order_coeffs_ = <<>>
  /\ threads = <<>>

\* no curve is being called
NoCurve ==
  /\ Construct(Line2)
  /\ opsLeft = 0
  /\ queriesLeft = 0

\* no call of intersections() is running
NoIntersections ==
  /\ subcurve_pairs = <<>>
  /\ points_of_intersection = <<>>
  /\ i_call = <<>>
  /\ i_pc = "none"
  /\ self_t = <<>> /\ self_subcurves = <<>> /\ self_k = 0

vars == <<curveVars, coeffVars, interVars, iterVars, sturmVars>>

Init == CurveInit /\ NoThreads /\ NoIntersections /\ NoIterate /\ NoSturm
Next == CurveNext
Spec == Init /\ [][Next]_vars

\* a curve that is only mutated, several times in a row
MutateOps == 2
MutateInit ==
  /\ \E points \in InitCurves : Construct(points)
  /\ opsLeft = MutateOps
  /\ queriesLeft = 0
  /\ NoThreads /\ NoIntersections /\ NoIterate /\ NoSturm
MutateSpec == MutateInit /\ [][MutateNext]_vars

CoeffSpecInit == CoeffInit /\ NoCurve /\ NoIntersections /\ NoIterate /\ NoSturm
CoeffSpec == CoeffSpecInit /\ [][CoeffNext]_vars

\* intersections() as the code orders its work; the thread that runs the
\* loop keeps running
InterInit ==
  /\ \/ \E pair \in CurvePairs, epsilon \in Epsilons :
          Entered(pair[1], pair[2], epsilon, CodeOrder)
     \/ Entered(TinyA, TinyB, I(1), CodeOrder)
  /\ NoCurve /\ NoThreads /\ NoIterate /\ NoSturm
\* LoopTurn can be taken, and taking it changes the stack
LoopTurnEnabled == i_pc = "loop" /\ Len(subcurve_pairs) > 0
\* weak fairness of LoopTurn, with LoopTurnEnabled for ENABLED <<LoopTurn>>_vars
LoopTurnFair == []<>(~LoopTurnEnabled) \/ []<><<LoopTurn>>_vars
InterSpec ==
  InterInit /\ [][InterNext]_vars /\ LoopTurnFair /\ WF_vars(ReturnPoints)

\* intersections() of a curve with itself
SelfSpecInit == SelfInit /\ NoCurve /\ NoThreads /\ NoIterate /\ NoSturm
SelfSpec == SelfSpecInit /\ [][SelfNext]_vars

\* iterateByLength(); the thread that runs the call keeps running
IterSpecInit == IterInit /\ NoCurve /\ NoThreads /\ NoIntersections /\ NoSturm
\* weak fairness of IterateEnter and of HalleyStep, each with its guard for
\* ENABLED: both change iter_pc
IterateEnterFair == []<>(iter_pc # "enter") \/ []<><<IterateEnter>>_vars
HalleyStepFair == []<>(iter_pc # "halley") \/ []<><<HalleyStep>>_vars
IterSpec ==
  IterSpecInit /\ [][IterNext]_vars
    /\ IterateEnterFair /\ WF_vars(WhileTest) /\ HalleyStepFair

\* Sturm::roots() under the All filter
SturmSpecInit == SturmInit /\ NoCurve /\ NoThreads /\ NoIntersections /\ NoIterate
SturmSpec == SturmSpecInit /\ [][SturmNext]_vars

\* the same loop working in each of the orders
OrderInit ==
  /\ \E pair \in CurvePairs, epsilon \in Epsilons, order \in Orders :
       Entered(pair[1], pair[2], epsilon, order)
  /\ NoCurve /\ NoThreads /\ NoIterate /\ NoSturm
OrderSpec == OrderInit /\ [][InterNext]_vars

\* ------------------------------------------------------------------------
\* Properties of the curve object
\* ------------------------------------------------------------------------

RECURSIVE deCasteljau(_, _)
\* repeated linear interpolation of neighbouring points
deCasteljau(points, t) ==
  IF Len(points) = 1 THEN points[1]
  ELSE deCasteljau(V([k \in 1..(Len(points) - 1) |->
                      PAdd(PScale(Sub(One, t), points[k]), PScale(t, points[k + 1]))]), t)

FreshCurve(points) == [N_ |-> Len(points), control_points_ |-> points]
FreshExtrema(cp) == computeRoots(Len(derivativePoints(Len(cp), cp)), derivativePoints(Len(cp), cp))

\* what the cached query `name` can compute from the control points cp alone
Fresh(name, args, cp, flatness) ==
  CASE name = "derivative" -> {FreshCurve(nthDerivativePoints(cp, 1))}
    [] name = "derivativeN" -> {FreshCurve(nthDerivativePoints(cp, args))}
    [] name = "roots" -> {computeRoots(Len(cp), cp)}
    [] name = "extrema" -> {FreshExtrema(cp)}
    [] name = "boundingBox" -> {computeBoundingBox(Len(cp), cp, FreshExtrema(cp))}
    [] name = "polyline" -> polylines(Len(cp), cp, flatness)
    [] name = "projectPoint" ->
         {projectWith(Len(cp), cp, polynomialPart(Len(cp), cp),
                      derivatePolynomial(Len(cp), cp), args)}

CachedQueries ==
  {"derivative", "derivativeN", "roots", "extrema", "boundingBox", "polyline", "projectPoint"}

RECURSIVE DerivativeFresh(_, _)
\* a derivative slot, and the slots of the curve in it, hold fresh values
DerivativeFresh(slot, cp) ==
  \/ slot = <<>>
  \/ /\ slot[1].control_points_ = nthDerivativePoints(cp, 1)
     /\ slot[1].N_ = Len(slot[1].control_points_)
     /\ slot[1].cached_roots_ # <<>> => slot[1].cached_roots_[1] = FreshExtrema(cp)
     /\ DerivativeFresh(slot[1].cached_derivative_, slot[1].control_points_)

SlotsFresh ==
  /\ DerivativeFresh(cached_derivative_, control_points_)
  /\ cached_roots_ # <<>> => cached_roots_[1] = computeRoots(N_, control_points_)
  /\ cached_bounding_box_ # <<>> =>
       cached_bounding_box_[1] =
         computeBoundingBox(N_, control_points_, FreshExtrema(control_points_))
  /\ cached_polyline_ # <<>> =>
       cached_polyline_[1] \in polylines(N_, control_points_, cached_polyline_flatness_)
  /\ cached_projection_polynomial_part_ # <<>> =>
       /\ cached_projection_polynomial_part_[1] = polynomialPart(N_, control_points_)
       /\ cached_projection_polynomial_derivative_ = derivatePolynomial(N_, control_points_)

\* C1 as the specification words it: whatever a cached query returns is what
\* a fresh computation of that query from the current control points
\* returns, and every filled slot holds such a value.
C1_ServedIsFresh ==
  /\ (op[1] \in CachedQueries /\ err = "none") =>
       ret \in Fresh(op[1], op[2], control_points_, op[2])
  /\ SlotsFresh

\* C1 (amended): every filled slot holds what a fresh computation from the
\* current control points yields, and a cached query returns that value;
\* polyline(flatness) returns the fresh polyline of the stored flatness,
\* which is less than the tolerance away from the flatness asked for.
C1_ServedIsFreshForStoredFlatness ==
  /\ (op[1] \in CachedQueries /\ err = "none") =>
       ret \in Fresh(op[1], op[2], control_points_, cached_polyline_flatness_)
  /\ op[1] = "polyline" =>
       Lt(RAbs(Sub(cached_polyline_flatness_, op[2])), I(PolylineTolerance))
  /\ SlotsFresh

\* a polyline was stored, a mutation dropped it (its flatness stays behind),
\* and a cached query has answered since
C1_Witness ==
  /\ opsLeft < MaxOps
  /\ cached_polyline_ = <<>> /\ cached_polyline_flatness_ # Zero
  /\ op[1] \in CachedQueries /\ err = "none"

\* C2: the stored count is the number of rows of the control points after
\* construction and after every call, and order() returns one less.
C2_CountIsRows ==
  /\ N_ = Len(control_points_)
  /\ op[1] = "order" => ret = Len(control_points_) - 1

\* lowerOrder has taken a curve of three points to two
C2_Witness ==
  op[1] = "lowerOrder" /\ err = "none" /\ N_ = 2 /\ Len(control_points_) = 2

LogicErrors == {"logic_error", "invalid_argument"}

\* C3: lowerOrder on two points, manipulateCurvature on other than three or
\* four points and derivative(0) throw a logic error (std::invalid_argument
\* is one) and leave the control points, the count and every cache slot as
\* they were.
C3_ThrowKeepsState ==
  [][(\/ op'[1] = "lowerOrder" /\ N_ = 2
      \/ op'[1] = "manipulateCurvature" /\ N_ \notin {3, 4}
      \/ op'[1] = "derivativeN" /\ op'[2] = 0)
     => /\ err' \in LogicErrors
        /\ UNCHANGED <<N_, control_points_, cacheSlots>>]_vars

\* lowerOrder has thrown on a curve that holds a stored polyline
C3_Witness ==
  /\ op[1] = "lowerOrder" /\ err = "logic_error"
  /\ cached_polyline_ # <<>>

TQueries == {"valueAt", "derivativeAt", "tangentAt", "normalAt", "splitCurve"}

Extrapolated(name, cp, t, v) ==
  CASE name = "valueAt" -> v = deCasteljau(cp, t)
    [] name \in {"derivativeAt", "tangentAt"} ->
         v = deCasteljau(nthDerivativePoints(cp, 1), t)
    [] name = "normalAt" -> v = normalOf(deCasteljau(nthDerivativePoints(cp, 1), t))
    [] name = "splitCurve" ->
         /\ v[1][1] = cp[1] /\ v[2][Len(cp)] = cp[Len(cp)]
         /\ v[1][Len(cp)] = deCasteljau(cp, t) /\ v[2][1] = deCasteljau(cp, t)

C10_ValueAtIsDeCasteljau ==
  (op[1] = "valueAt" /\ InUnit(op[2])) =>
    /\ ret = deCasteljau(control_points_, op[2])
    /\ op[2] = Zero => ret = control_points_[1]
    /\ op[2] = One => ret = control_points_[N_]

\* valueAt(1/2) has answered on a mutated curve of four points
C10_Witness ==
  /\ op[1] = "valueAt" /\ op[2] = Half /\ err = "none"
  /\ N_ = 4 /\ opsLeft < MaxOps


\* ------------------------------------------------------------------------
\* Properties of the coefficient maps
\* ------------------------------------------------------------------------

CompleteCoeffs(table, n) ==
  IF table = "bernstein" THEN bernsteinFill(n) ELSE elevateFill(n)

\* C5 as the specification words it: every thread that asked for a matrix
\* has got the fully computed one.
C5_ReaderGetsComplete ==
  \A i \in 1..Threads :
    threads[i].pc = "done" => threads[i].ret = CompleteCoeffs(threads[i].table, threads[i].n)


\* ------------------------------------------------------------------------
\* Properties of intersections()
\* ------------------------------------------------------------------------

\* C6 as the specification words it: the call returns.
C6_Returns == <>(i_pc = "done")

Distance2(p, q) == Norm2(PSub(p, q))

\* C7 as the specification words it: the call returns.
C7_Returns == <>(iter_pc = "done")

\* C8 as the specification words it: any two entries of the list are more
\* than epsilon apart.
C8_FartherThanEpsilon ==
  \A j \in 1..Len(points_of_intersection) : \A k \in 1..(j - 1) :
    Lt(Mul(i_call.epsilon, i_call.epsilon),
       Distance2(points_of_intersection[j], points_of_intersection[k]))

\* C8 (amended): any two entries of the list are at least epsilon apart; a
\* converged candidate is appended when no accepted point is closer to it
\* than epsilon, so two entries may be exactly epsilon apart.
C8_NotCloserThanEpsilon ==
  \A j \in 1..Len(points_of_intersection) : \A k \in 1..(j - 1) :
    ~Lt(Distance2(points_of_intersection[j], points_of_intersection[k]),
        Mul(i_call.epsilon, i_call.epsilon))

\* the call has returned three points or more
C8_Witness == i_pc = "done" /\ Len(points_of_intersection) >= 3

RECURSIVE intersectionsFrom(_, _, _, _)
\* lines 392-449: the points the loop returns from a stack and a list
intersectionsFrom(pairs, points, epsilon, order) ==
  IF Len(pairs) = 0 THEN points
  ELSE LET turn == loopTurn(taken(pairs, order)[1], taken(pairs, order)[2],
                            left_over(pairs, order), points, epsilon, order.first)
       IN  intersectionsFrom(turn.pairs, turn.points, epsilon, order)

\* what the call returns when the work is done in the code's order
CodeResult ==
  intersectionsFrom(<<<<i_call.this, i_call.curve>>>>, <<>>, i_call.epsilon, CodeOrder)

Range(seq) == {seq[k] : k \in 1..Len(seq)}

\* C9 as the specification words it: whatever the order of the work, the
\* set of points returned is the set the code's order returns.
C9_SameSet ==
  i_pc = "done" => Range(points_of_intersection) = Range(CodeResult)

Covers(ps, qs, epsilon) ==
  \A p \in Range(ps) : \E q \in Range(qs) : Lt(Distance2(p, q), Mul(epsilon, epsilon))

\* C9 (amended): the order of the work decides which of several candidates
\* closer than epsilon to each other is kept, so the sets may differ; every
\* point returned in one order is closer than epsilon to a point returned
\* in the code's order, and the other way round.
C9_SameUpToEpsilon ==
  i_pc = "done" =>
    /\ Covers(points_of_intersection, CodeResult, i_call.epsilon)
    /\ Covers(CodeResult, points_of_intersection, i_call.epsilon)

\* a call working in another order has returned another set of points
C9_Witness ==
  /\ i_pc = "done" /\ i_call.order # CodeOrder
  /\ Range(points_of_intersection) # Range(CodeResult)

\* ------------------------------------------------------------------------
\* Properties of the mutating calls
\* ------------------------------------------------------------------------

\* the step just taken is the mutating call of this name
Called(name) == op'[1] = name /\ Len(history') = Len(history) + 1

\* the step just taken is the query of this name, answered
Asked(name) == op'[1] = name /\ queriesLeft' = queriesLeft - 1 /\ err' = "none"

Inside(z) == Lt(Zero, z) /\ Lt(z, One)

\* enough parameters in [0, 1] to tell two curves of at most MaxN points apart
UnitParams == {Rat(k, MaxN) : k \in 0..MaxN}

\* C11: elevateOrder() raises the number of control points (and order()) by
\* exactly one and keeps the curve: valueAt(t) is the same before and after
\* for every t in [0, 1], and the first and the last control point stay.
C11_ElevateKeepsCurve ==
  [][Called("elevateOrder") =>
       /\ N_' = N_ + 1
       /\ Len(control_points_') = N_ + 1
       /\ \A t \in UnitParams :
            valueAt(N_', control_points_', t) = valueAt(N_, control_points_, t)
       /\ control_points_'[1] = control_points_[1]
       /\ control_points_'[N_'] = control_points_[N_]]_vars

\* a curve elevated twice, from 2 to 4 control points
C11_Witness ==
  /\ op[1] = "elevateOrder"
  /\ Len(history) = 2
  /\ Len(history[2]) = 3
  /\ N_ = 4

\* the control points before the mutating call made last
Before == history[Len(history)]

\* C12: lowerOrder() called right after elevateOrder() restores the control
\* points and the count the curve had before the two calls.
C12_LowerUndoesElevate ==
  [][op[1] = "elevateOrder" /\ Called("lowerOrder") =>
       /\ control_points_' = Before
       /\ N_' = Len(Before)]_vars

\* a cubic lowered from the four points its quadratic was elevated to
C12_Witness ==
  /\ op[1] = "lowerOrder"
  /\ Len(history) = 2
  /\ Len(history[1]) = 3
  /\ history[2] = MatMulC(elevateOrderCoeffs(3), history[1], 2)
  /\ N_ = 3

\* C14: one reverse() moves control point k to position n-1-k (counting
\* from 0) and keeps n; a second reverse() right after it leaves the
\* control points as they were before the two calls.
C14_ReverseTwiceIsIdentity ==
  [][Called("reverse") =>
       /\ N_' = N_
       /\ Len(control_points_') = N_
       /\ \A k \in 0..(N_ - 1) :
            control_points_'[(N_ - 1 - k) + 1] = control_points_[k + 1]
       /\ (op[1] = "reverse" => control_points_' = Before)]_vars

\* a cubic reversed twice; reversed once it differs from what it was
C14_Witness ==
  /\ op[1] = "reverse"
  /\ Len(history) = 2
  /\ N_ = 4
  /\ Len(history[1]) = 4
  /\ history[2] # history[1]
  /\ \A k \in 1..4 : history[2][k] = history[1][5 - k]

\* C16: for a curve of 3 or 4 control points and t strictly between 0 and 1,
\* after manipulateCurvature(t, B) the curve passes through B at t
\* (valueAt(t) = B), the first and the last control point are the ones
\* from before, and the number of control points is unchanged.
C16_ManipulatedPassesThroughTarget ==
  [][(Called("manipulateCurvature") /\ Inside(op'[2][1])) =>
       /\ N_ \in {3, 4}
       /\ N_' = N_
       /\ Len(control_points_') = N_
       /\ valueAt(N_', control_points_', op'[2][1]) = op'[2][2]
       /\ control_points_'[1] = control_points_[1]
       /\ control_points_'[N_] = control_points_[N_]]_vars

\* a cubic manipulated at 1/4 after another mutating call
C16_Witness ==
  /\ op[1] = "manipulateCurvature"
  /\ op[2][1] = Rat(1, 4)
  /\ err = "none"
  /\ N_ = 4
  /\ Len(history) = 2
  /\ control_points_ # history[2]

\* ------------------------------------------------------------------------
\* Properties of boundingBox() and polyline()
\* ------------------------------------------------------------------------

\* the curve at each of its extrema, and its two end points
BoxSamples ==
  {valueAt(N_, control_points_, FreshExtrema(control_points_)[k]) :
     k \in 1..Len(FreshExtrema(control_points_))}
    \cup {control_points_[1], control_points_[N_]}

\* C18: boundingBox() is the axis-aligned box of the curve's values at its
\* extrema and of its two end points: each of these samples lies between
\* the min and the max corner, and each coordinate of the two corners is
\* the coordinate of one of the samples.
C18_BoxOfExtremaAndEnds ==
  op[1] = "boundingBox" =>
    /\ \A p \in BoxSamples : \A c \in 1..2 :
         Le(ret[1][c], p[c]) /\ Le(p[c], ret[2][c])
    /\ \A c \in 1..2 :
         /\ \E p \in BoxSamples : p[c] = ret[1][c]
         /\ \E p \in BoxSamples : p[c] = ret[2][c]

\* a box whose upper side is reached at an extremum, above both end points
C18_Witness ==
  /\ op[1] = "boundingBox"
  /\ Lt(control_points_[1][2], ret[2][2])
  /\ Lt(control_points_[N_][2], ret[2][2])

RECURSIVE acceptedEnds(_, _, _, _, _)
\* the parameters at which the sub-curves the flatness test accepts end, from
\* the left of the curve to its right; cp is the curve over [lo, hi]
acceptedEnds(N, cp, flatness, lo, hi) ==
  IF isFlat(N, cp, flatness) THEN <<hi>>
  ELSE LET mid == Mul(Half, Add(lo, hi))
       IN  acceptedEnds(N, MatMulC(splitLeftHalf(N), cp, 2), flatness, lo, mid)
           \o acceptedEnds(N, MatMulC(splitRightHalf(N), cp, 2), flatness, mid, hi)

Increasing(ts) == \A k \in 1..(Len(ts) - 1) : Lt(ts[k], ts[k + 1])

\* C19: polyline() returns the first control point followed by the curve at
\* the end of every accepted sub-curve, taken from the left of the curve to
\* its right (the last control point of each, at increasing parameters), so
\* that it starts at P_0 and ends at P_{n-1}; for two control points it is
\* exactly <<P_0, P_1>>.
C19_VerticesInParameterOrder ==
  op[1] = "polyline" =>
    LET ends == IF N_ = 2 THEN <<One>>
                ELSE acceptedEnds(N_, control_points_, cached_polyline_flatness_, Zero, One)
    IN  /\ Increasing(<<Zero>> \o ends)
        /\ ret = <<control_points_[1]>>
                   \o [k \in 1..Len(ends) |-> deCasteljau(control_points_, ends[k])]
        /\ ret[1] = control_points_[1]
        /\ ret[Len(ret)] = control_points_[N_]
        /\ N_ = 2 => ret = <<control_points_[1], control_points_[2]>>

\* C20: the polyline slot is empty after construction and after every
\* mutation and only polyline() fills it; polyline(f) returns the stored
\* polyline, leaving slot and key alone, exactly when the slot is filled and
\* the key is less than the tolerance away from f, and otherwise computes
\* the polyline for f, stores it under the key f and returns it.
C20_ReusesIffStoredAndClose ==
  [][/\ op[1] = "Curve" => cached_polyline_ = <<>>
     /\ Len(history') = Len(history) + 1 => cached_polyline_' = <<>>
     /\ (op'[1] # "polyline" /\ Len(history') = Len(history)) =>
          cached_polyline_' = cached_polyline_
     /\ Asked("polyline") =>
          IF /\ cached_polyline_ # <<>>
             /\ Lt(RAbs(Sub(cached_polyline_flatness_, op'[2])), I(PolylineTolerance))
          THEN /\ UNCHANGED <<cached_polyline_, cached_polyline_flatness_>>
               /\ ret' = cached_polyline_[1]
          ELSE /\ cached_polyline_flatness_' = op'[2]
               /\ cached_polyline_' # <<>>
               /\ cached_polyline_'[1] \in polylines(N_, control_points_, op'[2])
               /\ ret' = cached_polyline_'[1]]_vars

\* a second polyline() has asked for a flatness other than the key and was
\* given the polyline stored under the key
C20_Witness ==
  /\ op[1] = "polyline" /\ queriesLeft = 0 /\ opsLeft = MaxOps
  /\ N_ > 2
  /\ op[2] # cached_polyline_flatness_
  /\ ret = cached_polyline_[1]

\* ------------------------------------------------------------------------
\* Properties of splitCurve()
\* ------------------------------------------------------------------------

\* C13: for z strictly between 0 and 1, splitCurve(z) returns two curves
\* L and R of the same number of control points as the curve, with
\* L.valueAt(u) = valueAt(z * u) and R.valueAt(u) = valueAt(z + (1 - z) * u)
\* for u in [0, 1]; L starts at the first control point, R ends at the last,
\* L's last point is R's first; the curve that is split is left as it was.
C13_SplitHalvesAreTheCurve ==
  [][(Asked("splitCurve") /\ Inside(op'[2])) =>
       LET z == op'[2]
           L == ret'[1]
           R == ret'[2]
       IN  /\ Len(L) = N_ /\ Len(R) = N_
           /\ \A u \in UnitParams :
                /\ valueAt(N_, L, u) = valueAt(N_, control_points_, Mul(z, u))
                /\ valueAt(N_, R, u) =
                     valueAt(N_, control_points_, Add(z, Mul(Sub(One, z), u)))
           /\ L[1] = control_points_[1]
           /\ R[N_] = control_points_[N_]
           /\ L[N_] = R[1]
           /\ UNCHANGED <<N_, control_points_, cacheSlots>>]_vars

\* a cubic split at 1/4
C13_Witness ==
  op[1] = "splitCurve" /\ op[2] = Rat(1, 4) /\ N_ = 4 /\ Len(ret) = 2

\* ------------------------------------------------------------------------
\* Properties of iterateByLength()
\* ------------------------------------------------------------------------

\* the arc length the call aims at, length(t) + s
TargetLength == Add(length(iter_call.curve, Zero, iter_call.t), iter_call.s)
TargetBelow == Lt(TargetLength, Zero)
TargetAbove == Lt(length(iter_call.curve, Zero, One), TargetLength)

\* C17: iterateByLength(t, s, epsilon) returns exactly 0 when length(t) + s
\* is below 0 and exactly 1 when it is above length(); in both cases it
\* takes no Halley step: the call goes from its entry to its return with t
\* and f untouched.
C17_ClampsWithoutStep ==
  /\ (TargetBelow \/ TargetAbove) =>
       /\ iter_pc \in {"enter", "done"}
       /\ iter_t = iter_call.t
       /\ iter_f = Zero
  /\ (iter_pc = "done" /\ TargetBelow) => iter_ret = <<Zero>>
  /\ (iter_pc = "done" /\ TargetAbove) => iter_ret = <<One>>

\* a call from t = 1/2 with a negative s that leads before the start
C17_Witness ==
  /\ iter_pc = "done"
  /\ iter_call.t = Half
  /\ TargetBelow
  /\ iter_ret = <<Zero>>

\* ------------------------------------------------------------------------
\* Properties of Sturm::roots()
\* ------------------------------------------------------------------------

Near(x, y, epsilon) == Le(RAbs(Sub(x, y)), epsilon)

\* C15: roots() with the All filter returns exactly the roots in [0, 1]:
\* every known root in [0, 1], the ones at 0 and at 1 included, has exactly
\* one returned value within epsilon of it, and every returned value is
\* within epsilon of a known root in [0, 1].
C15_ReturnsTheUnitRoots ==
  s_pc = "done" =>
    LET unit == {r \in s_call.known : InUnit(r)}
        returned == 1..Len(s_roots)
    IN  /\ \A r \in unit :
             Cardinality({k \in returned : Near(s_roots[k], r, s_call.epsilon)}) = 1
        /\ \A k \in returned : \E r \in unit : Near(s_roots[k], r, s_call.epsilon)

\* the intervals the step from this state hands to iterate
Examined ==
  IF s_pc = "enter" THEN {<<Zero, One>>}
  ELSE IF s_pc = "loop" /\ Len(intervals) > 0
  THEN LET back == intervals[Len(intervals)]
           a_b == Div(Add(back[1], back[2]), I(2))
       IN  {<<back[1], a_b>>, <<a_b, back[2]>>}
  ELSE {}

\* the roots the step has added
Emitted == {s_roots'[k] : k \in (Len(s_roots) + 1)..Len(s_roots')}

\* C22: every root a step emits is the midpoint (a + b) / 2 of an interval
\* (a, b) the step examined whose root count is exactly 1 and whose width
\* b - a is below epsilon.
C22_EmitsMidpointOfSingleRoot ==
  [][\A root \in Emitted :
       \E item \in Examined :
         /\ root = Div(Add(item[1], item[2]), I(2))
         /\ interval(sturm_chain', item[1], item[2]) = 1
         /\ Lt(Sub(item[2], item[1]), s_call.epsilon)]_vars

\* ------------------------------------------------------------------------
\* Properties of intersections() of a curve with itself
\* ------------------------------------------------------------------------

\* the extrema of the curve of the call, as extrema() returns them
CallExtrema ==
  computeRoots(Len(derivativePoints(Len(i_call.this), i_call.this)),
               derivativePoints(Len(i_call.this), i_call.this))

Ascending(ts) == \A k \in 1..(Len(ts) - 1) : Le(ts[k], ts[k + 1])
SameBag(ts, us) ==
  /\ Len(ts) = Len(us)
  /\ \A x \in Range(ts) \cup Range(us) :
       Cardinality({k \in 1..Len(ts) : ts[k] = x})
         = Cardinality({k \in 1..Len(us) : us[k] = x})

\* part is whole between the parameters lo and 1 (lo = 0) or 0 and hi (hi = 1)
IsPartOf(part, whole, lo, hi) ==
  \A u \in UnitParams :
    deCasteljau(part, u) = deCasteljau(whole, Add(lo, Mul(Sub(hi, lo), u)))

\* the cut just made: the piece cut (the curve at the first cut, the last
\* piece after it) goes, its part up to epsilon / 2 before the extremum and
\* its part from epsilon / 2 after it come, the pieces before it stay
CutIsOfLastPiece ==
  LET whole == IF self_k = 0 THEN i_call.this ELSE self_subcurves[self_k + 1]
      t_k == self_t[self_k + 1]
      half == Mul(Half, i_call.epsilon)
  IN  /\ Len(self_subcurves') = self_k' + 1
      /\ \A k \in 1..self_k : self_subcurves'[k] = self_subcurves[k]
      /\ IsPartOf(self_subcurves'[self_k' ], whole, Zero, Sub(t_k, half))
      /\ IsPartOf(self_subcurves'[self_k' + 1], whole, Add(t_k, half), One)

\* the pairs are the pairs <<subs[i], subs[j]>> with i < j, each once
PairsOfDistinct(pairs, subs) ==
  /\ Len(pairs) = (Len(subs) * (Len(subs) - 1)) \div 2
  /\ \A i \in 1..Len(subs) : \A j \in (i + 1)..Len(subs) :
       \E k \in 1..Len(pairs) : pairs[k] = <<subs[i], subs[j]>>
  /\ \A k \in 1..Len(pairs) :
       \E i \in 1..Len(subs) : \E j \in (i + 1)..Len(subs) :
         pairs[k] = <<subs[i], subs[j]>>

\* the extrema are taken in ascending order, every cut is of the last piece
\* and the stack is seeded with the pairs of different pieces
SelfSeeding(pieces) ==
  /\ (i_pc = "cut" /\ self_k = 0) =>
       Ascending(self_t) /\ SameBag(self_t, CallExtrema)
  /\ (i_pc = "cut" /\ self_k' = self_k + 1) => CutIsOfLastPiece
  /\ (i_pc = "cut" /\ i_pc' = "loop") =>
       /\ Len(self_subcurves) = pieces
       /\ PairsOfDistinct(subcurve_pairs', self_subcurves)

\* C21 as the specification words it: a curve with m extrema is cut into
\* m + 1 sub-curves, the last remaining piece being cut at each extremum in
\* ascending order, and the stack is seeded with the pairs (i, j), i < j, of
\* the sub-curves, each once and none with itself.
C21_CutIntoOneMoreThanExtrema ==
  [][SelfSeeding(Len(CallExtrema) + 1)]_vars

\* C21 (amended): as above for a curve with at least one extremum; a curve
\* without extrema is not cut, there is no sub-curve and the stack is
\* seeded with nothing.
C21_CutIntoOneMoreUnlessNone ==
  [][SelfSeeding(IF Len(CallExtrema) = 0 THEN 0 ELSE Len(CallExtrema) + 1)]_vars

\* a curve with three extrema, which extrema() returns out of order, has
\* been cut into four different pieces and their six pairs are on the stack
C21_Witness ==
  /\ i_pc = "loop"
  /\ ~Ascending(CallExtrema)
  /\ Len(self_subcurves) = 4
  /\ Cardinality(Range(self_subcurves)) = 4
  /\ Len(subcurve_pairs) = 6

\* ------------------------------------------------------------------------
\* Properties of derivative()
\* ------------------------------------------------------------------------

\* D_k = (n - 1) * (P_{k+1} - P_k); of one point, the origin
Hodograph(cp) ==
  IF Len(cp) = 1 THEN <<Origin>>
  ELSE [k \in 1..(Len(cp) - 1) |-> PScale(I(Len(cp) - 1), PSub(cp[k + 1], cp[k]))]

RECURSIVE HodographTimes(_, _)
HodographTimes(cp, k) == IF k = 0 THEN cp ELSE HodographTimes(Hodograph(cp), k - 1)

\* C23: derivative() returns the curve of the n - 1 control points
\* D_k = (n - 1) * (P_{k+1} - P_k); the first call after construction or a
\* mutation makes the object, later calls return that same object, with
\* whatever it has cached, and a mutation drops it; derivative(k), k >= 1,
\* returns what k calls of derivative() in a row lead to, which is the
\* one-point curve at the origin for k >= n.
C23_DerivativeIsCachedHodograph ==
  [][/\ Len(history') = Len(history) + 1 => cached_derivative_' = <<>>
     /\ Asked("derivative") =>
          /\ ret' = [N_ |-> N_ - 1, control_points_ |-> Hodograph(control_points_)]
          /\ ret' = Seen(cached_derivative_'[1])
          /\ IF cached_derivative_ = <<>>
             THEN /\ cached_derivative_'[1].cached_derivative_ = <<>>
                  /\ cached_derivative_'[1].cached_roots_ = <<>>
             ELSE cached_derivative_' = cached_derivative_
     /\ Asked("derivativeN") =>
          /\ ret'.control_points_ = HodographTimes(control_points_, op'[2])
          /\ ret'.N_ = Len(ret'.control_points_)
          /\ op'[2] >= N_ => ret' = [N_ |-> 1, control_points_ |-> <<Origin>>]
          /\ cached_derivative_ # <<>> =>
               Seen(cached_derivative_'[1]) = Seen(cached_derivative_[1])]_vars

\* derivative() has returned the object an earlier derivative(2) made, which
\* still holds the derivative it cached then
C23_Witness ==
  /\ op[1] = "derivative" /\ queriesLeft = 0 /\ opsLeft = MaxOps
  /\ cached_derivative_ # <<>>
  /\ cached_derivative_[1].cached_derivative_ # <<>>
  /\ N_ = 2
  /\ cached_derivative_[1].cached_derivative_[1].control_points_ = <<Origin>>

=============================================================================
